---------------------------- MODULE Spec2Model ----------------------------
(***************************************************************************)
(* A model of the integrity pipeline of iot-oracle: normalisation and row  *)
(* hashing (src/src/model/telemetry.ts), the Merkle tree (same file), HTTP *)
(* ingestion (src/src/ingest/http.ts), daily aggregation and the admin     *)
(* routes (src/src/api/admin.ts), the anchor service (src/unnamed/part_001)*)
(* and the queue workers (src/unnamed/part_002).                           *)
(*                                                                         *)
(* Strings are sequences of character codes, so that string concatenation  *)
(* is \o and JavaScript's default sort order is the lexicographic order of *)
(* the codes.  Numbers are fixed-point integers counting units of 0.0001.  *)
(***************************************************************************)
EXTENDS Integers, Sequences, FiniteSets, TLC

VARIABLES
    \* ---- the Merkle API session (MerkleTree, generateMerkleRoot) ----
    mkInput,        \* the list of row hashes the caller holds
    mkLast,         \* the last generateMerkleRoot call: <<[input, root]>> or <<>>
    mkTree,         \* the MerkleTree object built last: <<[leaves, tree]>> or <<>>
    mkProof,        \* the last getProof call: <<[leaf, ok, proof]>> or <<>>
    mkVerify,       \* the last verifyProof call: <<[leaf, proof, root, result]>> or <<>>
    \* ---- the persistent store (prisma) ----
    rawTelemetry,   \* the rows, one per (siteId, tsUtc)
    hourlySummary,  \* the summaries, one per (siteId, hourUtc)
    dailyDigest,    \* the digests, one per (siteId, dayUtc)
    nextDigestId,   \* the next fresh digest id
    \* ---- HTTP ingestion ----
    ingestReply,    \* the last POST /v1/ingest: <<[body, reply]>> or <<>>
    \* ---- anchoring ----
    env,            \* [ANCHOR_ENABLED, ADAPTER_CONFIGURED], fixed at start
    anchorQueue,    \* digest ids of the anchor jobs waiting in the queue
    procs,          \* the handlers in flight, one record per slot
    adapter,        \* the anchoring service: its log of accepted submissions
    everAnchored,   \* history: the (site, day) keys once seen anchored
    started,        \* history: the number of handlers started so far
    \* ---- scheduling and batch runs ----
    hourlyQueue,    \* the jobs waiting in the hourly-aggregation queue
    dailyQueue,     \* the jobs waiting in the daily-aggregation queue
    schedule,       \* the repeatable jobs registered at start: <<[hourly, daily]>> or <<>>
    batchRun,       \* the aggregateAllSites* call in progress or ended last
    ran             \* history: the aggregate calls made by queue jobs and batch runs

mkVars == <<mkInput, mkLast, mkTree, mkProof, mkVerify>>
storeVars == <<rawTelemetry, hourlySummary, dailyDigest, nextDigestId>>
anchorVars == <<env, anchorQueue, procs, adapter, everAnchored, started>>
schedVars == <<hourlyQueue, dailyQueue, schedule, batchRun, ran>>
vars == <<mkVars, storeVars, ingestReply, anchorVars, schedVars>>

-----------------------------------------------------------------------------
(***************************************************************************)
(* Strings and the hash                                                    *)
(***************************************************************************)

\* crypto.createHash('sha256').update(s).digest('hex'), idealised as a
\* collision-free hash: the digest of s is s between '[' (91) and ']' (93).
\* No hashed string holds a bracket of its own, so digests nest like terms
\* and the concatenation of two digests determines both.
Sha256(s) == <<91>> \o s \o <<93>>

\* a < b in JavaScript's string order (code units, left to right)
RECURSIVE LexLess(_, _)
LexLess(a, b) ==
    IF b = <<>> THEN FALSE
    ELSE IF a = <<>> THEN TRUE
    ELSE IF Head(a) # Head(b) THEN Head(a) < Head(b)
    ELSE LexLess(Tail(a), Tail(b))

\* Array.prototype.sort() with the default comparator, by insertion
RECURSIVE InsertSorted(_, _)
InsertSorted(x, s) ==
    IF s = <<>> THEN <<x>>
    ELSE IF LexLess(x, Head(s)) THEN <<x>> \o s
    ELSE <<Head(s)>> \o InsertSorted(x, Tail(s))

RECURSIVE SortStrings(_)
SortStrings(s) ==
    IF s = <<>> THEN <<>> ELSE InsertSorted(Head(s), SortStrings(Tail(s)))

\* what reading past the end of an array, or [][0], yields
Undefined == <<-1>>

-----------------------------------------------------------------------------
(***************************************************************************)
(* MerkleTree (src/src/model/telemetry.ts:127-230)                         *)
(***************************************************************************)

\* buildTree that hashes the odd node out alone instead of duplicating it
RECURSIVE PairUpNoDup(_, _)
PairUpNoDup(level, i) ==
    IF i >= Len(level) THEN <<>>
    ELSE LET left == level[i + 1]
             right == IF i + 1 < Len(level) THEN level[i + 2] ELSE <<>>
         IN <<Sha256(left \o right)>> \o PairUpNoDup(level, i + 2)

\* one round of the for loop of buildTree, from 0-based index i on:
\* right = currentLevel[i + 1] || left
RECURSIVE PairUp(_, _)
PairUp(level, i) ==
    IF i >= Len(level) THEN <<>>
    ELSE LET left == level[i + 1]
             right == IF i + 1 < Len(level) /\ level[i + 2] # <<>>
                      THEN level[i + 2] ELSE left
         IN <<Sha256(left \o right)>> \o PairUp(level, i + 2)

\* the while loop of buildTree: the levels above currentLevel
RECURSIVE LevelsAbove(_)
LevelsAbove(currentLevel) ==
    IF Len(currentLevel) > 1
    THEN LET nextLevel == PairUp(currentLevel, 0)
         IN <<nextLevel>> \o LevelsAbove(nextLevel)
    ELSE <<>>

\* buildTree as a do-while loop: a lone leaf is hashed with itself once
buildTreeDoWhile(leaves) ==
    <<leaves>> \o (IF Len(leaves) = 1
                   THEN <<PairUp(leaves, 0)>> ELSE LevelsAbove(leaves))

\* buildTree()
buildTree(leaves) == <<leaves>> \o LevelsAbove(leaves)

\* the constructor without its sort
NewMerkleTreeUnsorted(leaves) ==
    [leaves |-> leaves, tree |-> buildTree(leaves)]

\* new MerkleTree(leaves)
NewMerkleTree(leaves) ==
    LET sorted == SortStrings(leaves)
    IN [leaves |-> sorted, tree |-> buildTree(sorted)]

\* getRoot(): this.tree[this.tree.length - 1][0]
getRoot(t) ==
    LET top == t.tree[Len(t.tree)]
    IN IF Len(top) = 0 THEN Undefined ELSE top[1]

\* this.leaves.indexOf(leaf), 0-based, -1 when absent
RECURSIVE IndexFrom(_, _, _)
IndexFrom(s, x, i) ==
    IF i >= Len(s) THEN -1
    ELSE IF s[i + 1] = x THEN i ELSE IndexFrom(s, x, i + 1)

indexOf(s, x) == IndexFrom(s, x, 0)

\* the for loop of getProof from `level` on, at currentIndex
RECURSIVE ProofFrom(_, _, _)
ProofFrom(t, level, currentIndex) ==
    IF level >= Len(t.tree) - 1 THEN <<>>
    ELSE LET currentLevel == t.tree[level + 1]
             siblingIndex == IF currentIndex % 2 = 0
                             THEN currentIndex + 1 ELSE currentIndex - 1
             here == IF siblingIndex < Len(currentLevel)
                     THEN <<currentLevel[siblingIndex + 1]>> ELSE <<>>
         IN here \o ProofFrom(t, level + 1, currentIndex \div 2)

\* getProof(leaf): [ok |-> FALSE] stands for the thrown 'Leaf not found in tree'
getProof(t, leaf) ==
    LET leafIndex == indexOf(t.leaves, leaf)
    IN IF leafIndex = -1 THEN [ok |-> FALSE, proof |-> <<>>]
       ELSE [ok |-> TRUE, proof |-> ProofFrom(t, 0, leafIndex)]

\* the for loop of verifyProof: hash = sha256(hash + sibling)
RECURSIVE FoldProof(_, _)
FoldProof(hash, proof) ==
    IF proof = <<>> THEN hash
    ELSE FoldProof(Sha256(hash \o Head(proof)), Tail(proof))

\* verifyProof whose loop stops one element early (i < proof.length - 1)
verifyProofSkipLast(leaf, proof, root) ==
    FoldProof(leaf, SubSeq(proof, 1, Len(proof) - 1)) = root

\* verifyProof(leaf, proof, root)
verifyProof(leaf, proof, root) == FoldProof(leaf, proof) = root

\* generateMerkleRoot(rowHashes)
generateMerkleRoot(rowHashes) == getRoot(NewMerkleTree(rowHashes))

\* generateMerkleProof(rowHashes, targetHash)
generateMerkleProof(rowHashes, targetHash) ==
    getProof(NewMerkleTree(rowHashes), targetHash)

\* verifyMerkleProof(leaf, proof, root): the minimal tree it builds has no
\* part in the answer
verifyMerkleProof(leaf, proof, root) == verifyProof(leaf, proof, root)

-----------------------------------------------------------------------------
(***************************************************************************)
(* Numbers, instants and their strings                                     *)
(*                                                                         *)
(* A finite number is the integer count of its units of 0.0001; a number   *)
(* of a raw reading is [fin, v], fin = FALSE standing for NaN or an        *)
(* infinity.  An optional value is <<>> (undefined) or <<x>>.  An instant  *)
(* is its count of milliseconds since the epoch.                           *)
(***************************************************************************)

Scale == 10 * 1000

Num(v) == [fin |-> TRUE, v |-> v]
NaN == [fin |-> FALSE, v |-> 0]

Min2(a, b) == IF a < b THEN a ELSE b
Max2(a, b) == IF a > b THEN a ELSE b

\* the decimal digits of n >= 0
RECURSIVE Digits(_)
Digits(n) == IF n < 10 THEN <<48 + n>> ELSE Digits(n \div 10) \o <<48 + (n % 10)>>

\* the digits of the fraction f (0 <= f < 10^width) without trailing zeros
RECURSIVE FractionDigits(_, _)
FractionDigits(f, width) ==
    IF f = 0 \/ width = 0 THEN <<>>
    ELSE LET unit == 10 ^ (width - 1)
         IN <<48 + (f \div unit)>> \o FractionDigits(f % unit, width - 1)

\* Number.prototype.toString(): shortest decimal, '-' (45), '.' (46)
NumberToString(v) ==
    LET a == IF v < 0 THEN -v ELSE v
        frac == FractionDigits(a % Scale, 4)
    IN (IF v < 0 THEN <<45>> ELSE <<>>)
       \o Digits(a \div Scale)
       \o (IF frac = <<>> THEN <<>> ELSE <<46>> \o frac)

\* toFixed that cuts the further digits off (not the code)
ToFixedTruncating(v, precision) ==
    LET step == 10 ^ (4 - precision)
        a == IF v < 0 THEN -v ELSE v
        r == (a \div step) * step
    IN IF v < 0 THEN -r ELSE r

\* Number(value.toFixed(precision)): the nearest multiple of 10^-precision,
\* a tie going away from zero
ToFixed(v, precision) ==
    LET step == 10 ^ (4 - precision)
        a == IF v < 0 THEN -v ELSE v
        r == ((a + (step \div 2)) \div step) * step
    IN IF v < 0 THEN -r ELSE r

\* Date.prototype.toISOString(), rendered as 'T' <milliseconds> 'Z'
ToISOString(instant) == <<84>> \o Digits(instant) \o <<90>>

MsPerHour == 60 * 60 * 1000
MsPerDay == 24 * MsPerHour

\* getDayStart, getDayEnd, getHourStart (src/src/util/index.ts:20-36)
getDayStart(date) == date - (date % MsPerDay)
getDayEnd(date) == getDayStart(date) + MsPerDay - 1
getHourStart(date) == date - (date % MsPerHour)

\* parseDate(formatDate(d)): the day string of d read back as 00:00:00.000Z
formatDate(date) == getDayStart(date)

-----------------------------------------------------------------------------
(***************************************************************************)
(* Validation, clamping, normalisation, row hash                           *)
(* (src/src/model/telemetry.ts:5-122, src/src/config/index.ts:26-29)       *)
(***************************************************************************)

HASH_PRECISION_POWER_DP == 3
HASH_PRECISION_ENERGY_DP == 2
HASH_PRECISION_TEMP_DP == 1
HASH_PRECISION_IRR_DP == 1

\* 'OK', 'OUTAGE', 'CURTAILED'; 'mqtt', 'http', 'pull'
StatusOK == <<79, 75>>
StatusOUTAGE == <<79, 85, 84, 65, 71, 69>>
StatusCURTAILED == <<67, 85, 82, 84, 65, 73, 76, 69, 68>>
Statuses == {StatusOK, StatusOUTAGE, StatusCURTAILED}
Sources == {"mqtt", "http", "pull"}

\* z.number().finite().optional() and .nonnegative()
FiniteOptional(x) == x = <<>> \/ x[1].fin
NonNegativeOptional(x) == x = <<>> \/ (x[1].fin /\ x[1].v >= 0)

\* RawTelemetryInputSchema accepts the input
SchemaAccepts(input) ==
    /\ Len(input.siteId) >= 1
    /\ input.tsUtc.ok
    /\ NonNegativeOptional(input.poaIrrWm2)
    /\ FiniteOptional(input.tempC)
    /\ NonNegativeOptional(input.windMps)
    /\ NonNegativeOptional(input.acPowerKw)
    /\ NonNegativeOptional(input.acEnergyKWh)
    /\ (input.status = <<>> \/ input.status[1] \in Statuses)
    /\ input.source \in Sources

\* validateTelemetryArray: z.array(schema).parse throws unless every element
\* is accepted
validateTelemetryArrayOk(inputs) ==
    \A i \in 1..Len(inputs) : SchemaAccepts(inputs[i])

\* x ? Math.min(Math.max(x, lo), hi) : undefined -- 0 and NaN are falsy
Clamp(x, lo, hi) ==
    IF x # <<>> /\ x[1].fin /\ x[1].v # 0
    THEN <<Num(Min2(Max2(x[1].v, lo), hi))>> ELSE <<>>

\* clampValues(input)
clampValues(input) ==
    [input EXCEPT
        !.poaIrrWm2 = Clamp(@, 0, 2000 * Scale),
        !.tempC = Clamp(@, -50 * Scale, 80 * Scale),
        !.windMps = Clamp(@, 0, 100 * Scale),
        !.acPowerKw = Clamp(@, 0, 10000 * Scale),
        !.acEnergyKWh = Clamp(@, 0, 1000 * Scale)]

\* normalizeNumber(value, precision)
normalizeNumber(value, precision) ==
    IF value = <<>> \/ ~value[1].fin THEN <<>>
    ELSE <<ToFixed(value[1].v, precision)>>

\* data.x?.toString() || ''
OptionalToString(x) == IF x = <<>> THEN <<>> ELSE NumberToString(x[1])

\* generateRowHash(data): the fields joined by '|' (124), hashed
generateRowHash(data) ==
    Sha256(data.siteId \o <<124>> \o data.tsUtc \o <<124>>
           \o OptionalToString(data.acEnergyKWh) \o <<124>>
           \o OptionalToString(data.acPowerKw) \o <<124>>
           \o OptionalToString(data.poaIrrWm2) \o <<124>>
           \o OptionalToString(data.tempC) \o <<124>>
           \o data.status)

\* normalizeTelemetry with a row hash that also covers the source tag and
\* the uniqKey (not the code: the variant the row hash claim excludes)
normalizeTelemetryHashingSource(input) ==
    LET poaIrrWm2 == normalizeNumber(input.poaIrrWm2, HASH_PRECISION_IRR_DP)
        tempC == normalizeNumber(input.tempC, HASH_PRECISION_TEMP_DP)
        acPowerKw == normalizeNumber(input.acPowerKw, HASH_PRECISION_POWER_DP)
        acEnergyKWh == normalizeNumber(input.acEnergyKWh, HASH_PRECISION_ENERGY_DP)
    IN [siteId |-> input.siteId,
        tsUtc |-> input.tsUtc.instant,
        poaIrrWm2 |-> poaIrrWm2,
        tempC |-> tempC,
        windMps |-> normalizeNumber(input.windMps, HASH_PRECISION_TEMP_DP),
        acPowerKw |-> acPowerKw,
        acEnergyKWh |-> acEnergyKWh,
        status |-> input.status,
        source |-> input.source,
        uniqKey |-> input.uniqKey,
        rowHash |-> Sha256(<<input.source, input.uniqKey>>)]

\* normalizeTelemetry(input)
normalizeTelemetry(input) ==
    LET tsUtc == input.tsUtc.instant
        poaIrrWm2 == normalizeNumber(input.poaIrrWm2, HASH_PRECISION_IRR_DP)
        tempC == normalizeNumber(input.tempC, HASH_PRECISION_TEMP_DP)
        windMps == normalizeNumber(input.windMps, HASH_PRECISION_TEMP_DP)
        acPowerKw == normalizeNumber(input.acPowerKw, HASH_PRECISION_POWER_DP)
        acEnergyKWh == normalizeNumber(input.acEnergyKWh, HASH_PRECISION_ENERGY_DP)
        rowHash == generateRowHash(
            [siteId |-> input.siteId,
             tsUtc |-> ToISOString(tsUtc),
             acEnergyKWh |-> acEnergyKWh,
             acPowerKw |-> acPowerKw,
             poaIrrWm2 |-> poaIrrWm2,
             tempC |-> tempC,
             status |-> IF input.status = <<>> THEN <<>> ELSE input.status[1]])
    IN [siteId |-> input.siteId,
        tsUtc |-> tsUtc,
        poaIrrWm2 |-> poaIrrWm2,
        tempC |-> tempC,
        windMps |-> windMps,
        acPowerKw |-> acPowerKw,
        acEnergyKWh |-> acEnergyKWh,
        status |-> input.status,
        source |-> input.source,
        uniqKey |-> input.uniqKey,
        rowHash |-> rowHash]

-----------------------------------------------------------------------------
(***************************************************************************)
(* The store: prisma.rawTelemetry, a set of rows with one row per          *)
(* (siteId, tsUtc)                                                         *)
(***************************************************************************)

RowsAt(rows, siteId, tsUtc) ==
    { r \in rows : r.siteId = siteId /\ r.tsUtc = tsUtc }

\* prisma sets a column from `data` unless the value given is undefined
SetUnlessUndefined(old, new) == IF new = <<>> THEN old ELSE new

\* prisma.rawTelemetry.upsert({where: {siteId_tsUtc}, update, create})
\* (src/src/ingest/http.ts:41-72); the generated row id is left out
upsertRawTelemetry(rows, n) ==
    LET found == RowsAt(rows, n.siteId, n.tsUtc)
    IN IF found = {}
       THEN rows \cup {n}
       ELSE LET old == CHOOSE r \in found : TRUE
                upd == [old EXCEPT
                    !.poaIrrWm2 = SetUnlessUndefined(@, n.poaIrrWm2),
                    !.tempC = SetUnlessUndefined(@, n.tempC),
                    !.windMps = SetUnlessUndefined(@, n.windMps),
                    !.acPowerKw = SetUnlessUndefined(@, n.acPowerKw),
                    !.acEnergyKWh = SetUnlessUndefined(@, n.acEnergyKWh),
                    !.status = SetUnlessUndefined(@, n.status),
                    !.rowHash = n.rowHash,
                    !.source = n.source,
                    !.uniqKey = SetUnlessUndefined(@, n.uniqKey)]
            IN (rows \ found) \cup {upd}

\* the for loop of ingestTelemetry from record i on: [rows, results]
RECURSIVE IngestLoop(_, _, _, _)
IngestLoop(clamped, i, rows, results) ==
    IF i > Len(clamped) THEN [rows |-> rows, results |-> results]
    ELSE LET normalized == normalizeTelemetry(clamped[i])
             stored == upsertRawTelemetry(rows, normalized)
             row == CHOOSE r \in RowsAt(stored, normalized.siteId, normalized.tsUtc) : TRUE
         IN IngestLoop(clamped, i + 1, stored,
                       Append(results, [siteId |-> row.siteId,
                                        tsUtc |-> ToISOString(row.tsUtc),
                                        rowHash |-> row.rowHash]))

-----------------------------------------------------------------------------
(***************************************************************************)
(* POST /v1/ingest (src/src/ingest/http.ts:15-127)                         *)
(***************************************************************************)

\* new OracleError(message, code, statusCode) (src/src/util/index.ts:79-88)
OracleError(message, code, statusCode) ==
    [message |-> message, code |-> code, statusCode |-> statusCode]

\* createError(message, code, statusCode) (src/src/util/index.ts:90-92)
createError(message, code, statusCode) == OracleError(message, statusCode, code)

\* the reply of ingestTelemetry to a body whose `telemetry` is <<>>
\* (undefined) or <<list>>, and the rows it leaves in the store
ingestTelemetry(body, rows) ==
    IF body.telemetry = <<>> \/ Len(body.telemetry[1]) = 0
    THEN LET error == createError("Telemetry array is required and must not be empty",
                                  "INVALID_INPUT", "400")
         IN [rows |-> rows,
             reply |-> [status |-> error.statusCode, success |-> FALSE,
                        code |-> error.code, processed |-> 0,
                        results |-> <<>>, errors |-> <<>>]]
    ELSE IF ~validateTelemetryArrayOk(body.telemetry[1])
    THEN \* the ZodError has no statusCode
         [rows |-> rows,
          reply |-> [status |-> "500", success |-> FALSE, code |-> "",
                     processed |-> 0, results |-> <<>>, errors |-> <<>>]]
    ELSE LET validatedTelemetry == body.telemetry[1]
             clampedTelemetry == [i \in 1..Len(validatedTelemetry) |->
                                     clampValues(validatedTelemetry[i])]
             done == IngestLoop(clampedTelemetry, 1, rows, <<>>)
         IN [rows |-> done.rows,
             reply |-> [status |-> "200", success |-> TRUE, code |-> "",
                        processed |-> Len(done.results),
                        results |-> done.results, errors |-> <<>>]]

-----------------------------------------------------------------------------
(***************************************************************************)
(* The Merkle API as a session: a caller holds a list of row hashes, may   *)
(* reorder it or repeat its last element, and calls the exported functions.*)
(***************************************************************************)

\* bounds of the Merkle session
NumHashes == 3
MaxLeaves == 4

\* the row hashes that can occur: digests of NumHashes one-character rows
HashPool == { Sha256(<<96 + i>>) : i \in 1..NumHashes }

\* a digest that belongs to no row of the pool
ForeignHash == Sha256(<<63>>)

HashLists == UNION { [1..n -> HashPool] : n \in 0..MaxLeaves }

\* the hashes of every level of a tree
TreeNodes(t) == UNION { { t.tree[l][i] : i \in 1..Len(t.tree[l]) } : l \in 1..Len(t.tree) }

RemoveAt(s, i) == SubSeq(s, 1, i - 1) \o SubSeq(s, i + 1, Len(s))
InsertAt(s, i, x) == SubSeq(s, 1, i) \o <<x>> \o SubSeq(s, i + 1, Len(s))

\* the proofs that differ from p in one element changed, removed or added
Tampered(p, pool) ==
    ( { [p EXCEPT ![i] = x] : i \in 1..Len(p), x \in pool }
      \cup { RemoveAt(p, i) : i \in 1..Len(p) }
      \cup { InsertAt(p, i, x) : i \in 0..Len(p), x \in pool } ) \ {p}

\* the variables of the store, of the handlers and of the scheduler stay as
\* they are
restUnchanged == UNCHANGED <<storeVars, ingestReply, anchorVars, schedVars>>

MerkleInit ==
    /\ mkInput \in HashLists
    /\ mkLast = <<>>
    /\ mkTree = <<>>
    /\ mkProof = <<>>
    /\ mkVerify = <<>>

\* root = generateMerkleRoot(rowHashes)
GenerateMerkleRoot ==
    /\ mkLast' = <<[input |-> mkInput, root |-> generateMerkleRoot(mkInput)]>>
    /\ UNCHANGED <<mkInput, mkTree, mkProof, mkVerify>>
    /\ restUnchanged

\* the caller's rows arrive in another order: two neighbours swap
Reorder(i) ==
    /\ i \in 1..(Len(mkInput) - 1)
    /\ mkInput[i] # mkInput[i + 1]
    /\ mkInput' = [mkInput EXCEPT ![i] = mkInput[i + 1], ![i + 1] = mkInput[i]]
    /\ UNCHANGED <<mkLast, mkTree, mkProof, mkVerify>>
    /\ restUnchanged

\* the caller repeats the last element of its list
DuplicateLast ==
    /\ mkInput # <<>>
    /\ Len(mkInput) < MaxLeaves
    /\ mkInput' = Append(mkInput, mkInput[Len(mkInput)])
    /\ UNCHANGED <<mkLast, mkTree, mkProof, mkVerify>>
    /\ restUnchanged

\* tree = buildMerkleTree(rowHashes), for the list whose root was computed
BuildMerkleTree ==
    /\ mkTree = <<>>
    /\ mkLast # <<>> /\ mkLast[1].input = mkInput
    /\ mkTree' = <<NewMerkleTree(mkInput)>>
    /\ UNCHANGED <<mkInput, mkLast, mkProof, mkVerify>>
    /\ restUnchanged

\* proof = tree.getProof(leaf)
GetProof(leaf) ==
    /\ mkTree # <<>>
    /\ mkProof = <<>>
    /\ LET r == getProof(mkTree[1], leaf)
       IN mkProof' = <<[leaf |-> leaf, ok |-> r.ok, proof |-> r.proof]>>
    /\ mkVerify' = <<>>
    /\ UNCHANGED <<mkInput, mkLast, mkTree>>
    /\ restUnchanged

\* verifyMerkleProof(leaf, proof, root) against the root of the tree
VerifyProof(leaf, proof) ==
    /\ mkTree # <<>>
    /\ mkVerify = <<>>
    /\ LET root == getRoot(mkTree[1])
       IN mkVerify' = <<[leaf |-> leaf, proof |-> proof, root |-> root,
                         result |-> verifyMerkleProof(leaf, proof, root)]>>
    /\ UNCHANGED <<mkInput, mkLast, mkTree, mkProof>>
    /\ restUnchanged

\* the calls a verifier can make once a proof was handed out: the proof as
\* given, the proof with one element tampered, or another leaf with the proof
VerifyGiven ==
    /\ mkProof # <<>> /\ mkProof[1].ok
    /\ VerifyProof(mkProof[1].leaf, mkProof[1].proof)

VerifyTampered ==
    /\ mkProof # <<>> /\ mkProof[1].ok /\ mkTree # <<>>
    /\ \E p \in Tampered(mkProof[1].proof,
                         HashPool \cup TreeNodes(mkTree[1]) \cup {ForeignHash}) :
          VerifyProof(mkProof[1].leaf, p)

VerifyWrongLeaf ==
    /\ mkProof # <<>> /\ mkProof[1].ok /\ mkTree # <<>>
    /\ \E h \in (HashPool \cup TreeNodes(mkTree[1]) \cup {ForeignHash}) \ {mkProof[1].leaf} :
          VerifyProof(h, mkProof[1].proof)

-----------------------------------------------------------------------------
(***************************************************************************)
(* Sites, daily aggregation (src/src/api/admin.ts:503-617)                 *)
(***************************************************************************)

\* 'PRJ001', 'PRJ002', 'PRJ009'
PRJ001 == <<80, 82, 74, 48, 48, 49>>
PRJ002 == <<80, 82, 74, 48, 48, 50>>
PRJ009 == <<80, 82, 74, 48, 48, 57>>

\* prisma.site as seeded from defaultSites (src/src/config/index.ts:70-89);
\* baselineKgPerKWh 0.708 and 0.485 in units of 0.0001
SiteTable ==
    { [id |-> PRJ001, baselineKgPerKWh |-> 7080],
      [id |-> PRJ002, baselineKgPerKWh |-> 4850] }

\* sum(values) over the rows that carry the metric
RECURSIVE SumEnergy(_)
SumEnergy(rows) ==
    IF rows = {} THEN 0
    ELSE LET r == CHOOSE x \in rows : TRUE
         IN (IF r.acEnergyKWh = <<>> THEN 0 ELSE r.acEnergyKWh[1])
            + SumEnergy(rows \ {r})

\* findMany(... orderBy: {tsUtc: 'asc'}).map(r => r.rowHash)
RECURSIVE RowHashesAsc(_)
RowHashesAsc(rows) ==
    IF rows = {} THEN <<>>
    ELSE LET r == CHOOSE x \in rows : \A y \in rows : x.tsUtc <= y.tsUtc
         IN <<r.rowHash>> \o RowHashesAsc(rows \ {r})

\* the findMany of aggregateDaily without the site in its filter (not the
\* code: the records of every site would enter the digest)
DayRowsAnySite(rows, siteId, dayUtc) ==
    { r \in rows : /\ r.tsUtc >= getDayStart(dayUtc)
                   /\ r.tsUtc <= getDayEnd(dayUtc) }

\* the rows of aggregateDaily's findMany: tsUtc in [dayStart, dayEnd]
DayRows(rows, siteId, dayUtc) ==
    { r \in rows : /\ r.siteId = siteId
                   /\ r.tsUtc >= getDayStart(dayUtc)
                   /\ r.tsUtc <= getDayEnd(dayUtc) }

\* aggregateDaily looking for the records before the site (not the code: an
\* unknown site without records would get the no-record sentinel)
aggregateDailyResultRecordsFirst(rows, siteId, dayUtc) ==
    IF DayRows(rows, siteId, dayUtc) = {} THEN <<"null">> ELSE <<"throw">>

\* aggregateDaily without its `telemetryRecords.length === 0` return (not
\* the code: a day without records would get a digest of zero rows)
aggregateDailyResultOfAnyDay(rows, siteId, dayUtc) ==
    LET site == { x \in SiteTable : x.id = siteId }
        telemetryRecords == DayRows(rows, siteId, dayUtc)
    IN IF site = {} THEN <<"throw">>
       ELSE LET totalEnergyKWh == SumEnergy(telemetryRecords)
                baseline == (CHOOSE x \in site : TRUE).baselineKgPerKWh
            IN <<"result",
                 [siteId |-> siteId,
                  dayUtc |-> getDayStart(dayUtc),
                  energyKWh |-> totalEnergyKWh,
                  avoidedTco2e |-> totalEnergyKWh * baseline,
                  rows |-> Cardinality(telemetryRecords),
                  merkleRoot |-> generateMerkleRoot(RowHashesAsc(telemetryRecords))]>>

\* the first half of aggregateDaily, up to the DailyAggregationResult:
\* <<"throw">> for an unknown site, <<"null">> for a day without rows, else
\* <<"result", r>>.  avoidedTco2e = energy * baseline / 1000 is kept as the
\* product, in units of 10^-11 tonnes.
aggregateDailyResult(rows, siteId, dayUtc) ==
    LET site == { x \in SiteTable : x.id = siteId }
        telemetryRecords == DayRows(rows, siteId, dayUtc)
    IN IF site = {} THEN <<"throw">>
       ELSE IF telemetryRecords = {} THEN <<"null">>
       ELSE LET totalEnergyKWh == SumEnergy(telemetryRecords)
                baseline == (CHOOSE x \in site : TRUE).baselineKgPerKWh
            IN <<"result",
                 [siteId |-> siteId,
                  dayUtc |-> getDayStart(dayUtc),
                  energyKWh |-> totalEnergyKWh,
                  avoidedTco2e |-> totalEnergyKWh * baseline,
                  rows |-> Cardinality(telemetryRecords),
                  merkleRoot |-> generateMerkleRoot(RowHashesAsc(telemetryRecords))]>>

DigestsAt(digests, siteId, dayUtc) ==
    { d \in digests : d.siteId = siteId /\ d.dayUtc = dayUtc }

DigestsById(digests, id) == { d \in digests : d.id = id }

\* prisma.dailyDigest.upsert (src/src/api/admin.ts:572-594): the update
\* branch writes four columns; the create branch makes a row with a fresh
\* id and the column defaults (anchored false, no references, no URLs)
upsertDailyDigestInsert(digests, result, freshId) ==
    digests \cup
    { [id |-> freshId, siteId |-> result.siteId, dayUtc |-> result.dayUtc,
       energyKWh |-> result.energyKWh, avoidedTco2e |-> result.avoidedTco2e,
       rows |-> result.rows, merkleRoot |-> result.merkleRoot,
       csvUrl |-> <<>>, jsonUrl |-> <<>>,
       anchored |-> FALSE, adapterTxId |-> <<>>, txHash |-> <<>>] }

upsertDailyDigestAccumulating(digests, result, freshId) ==
    LET found == DigestsAt(digests, result.siteId, result.dayUtc)
    IN IF found = {}
       THEN upsertDailyDigestInsert(digests, result, freshId)
       ELSE { IF d \in found
              THEN [d EXCEPT !.energyKWh = @ + result.energyKWh,
                             !.rows = @ + result.rows]
              ELSE d : d \in digests }

\* an upsert whose update branch writes the column defaults as well (not
\* the code: a recompute would take the anchor off the digest)
upsertDailyDigestResetting(digests, result, freshId) ==
    LET found == DigestsAt(digests, result.siteId, result.dayUtc)
    IN IF found = {}
       THEN upsertDailyDigestInsert(digests, result, freshId)
       ELSE { IF d \in found
              THEN [d EXCEPT !.energyKWh = result.energyKWh,
                             !.avoidedTco2e = result.avoidedTco2e,
                             !.rows = result.rows,
                             !.merkleRoot = result.merkleRoot,
                             !.anchored = FALSE,
                             !.adapterTxId = <<>>,
                             !.txHash = <<>>]
              ELSE d : d \in digests }

upsertDailyDigest(digests, result, freshId) ==
    LET found == DigestsAt(digests, result.siteId, result.dayUtc)
    IN IF found = {}
       THEN digests \cup
            { [id |-> freshId, siteId |-> result.siteId, dayUtc |-> result.dayUtc,
               energyKWh |-> result.energyKWh, avoidedTco2e |-> result.avoidedTco2e,
               rows |-> result.rows, merkleRoot |-> result.merkleRoot,
               csvUrl |-> <<>>, jsonUrl |-> <<>>,
               anchored |-> FALSE, adapterTxId |-> <<>>, txHash |-> <<>>] }
       ELSE { IF d \in found
              THEN [d EXCEPT !.energyKWh = result.energyKWh,
                             !.avoidedTco2e = result.avoidedTco2e,
                             !.rows = result.rows,
                             !.merkleRoot = result.merkleRoot]
              ELSE d : d \in digests }

-----------------------------------------------------------------------------
(***************************************************************************)
(* GET /v1/sites/:id/proof (src/src/api/public.ts:295-381)                 *)
(***************************************************************************)

\* an answer without a proof: 404 or 500
NoProof(status, error) ==
    [status |-> status, error |-> error, included |-> FALSE,
     leafHash |-> <<>>, branch |-> <<>>, root |-> <<>>]

\* the answer of the route on these tables: the digest of the day, the
\* record at the instant, the row hashes of the day by instant, the proof
\* of generateMerkleProof (its 'Leaf not found in tree' is caught: 500)
SiteProof(digests, rows, siteId, dayUtc, tsUtc) ==
    LET digest == DigestsAt(digests, siteId, dayUtc)
        telemetry == RowsAt(rows, siteId, tsUtc)
        allTelemetry == { r \in rows : /\ r.siteId = siteId
                                       /\ r.tsUtc >= dayUtc
                                       /\ r.tsUtc < dayUtc + MsPerDay }
    IN IF digest = {}
       THEN NoProof(404, "Digest not found for the specified day")
       ELSE IF telemetry = {}
       THEN NoProof(404, "Telemetry record not found")
       ELSE LET leaf == (CHOOSE r \in telemetry : TRUE).rowHash
                proof == generateMerkleProof(RowHashesAsc(allTelemetry), leaf)
            IN IF ~proof.ok
               THEN NoProof(500, "Internal server error")
               ELSE [status |-> 200, error |-> "", included |-> TRUE,
                     leafHash |-> leaf, branch |-> proof.proof,
                     root |-> (CHOOSE d \in digest : TRUE).merkleRoot]

-----------------------------------------------------------------------------
(***************************************************************************)
(* Handlers in flight.  A handler runs in a slot of `procs`; each step of  *)
(* it is what runs between two awaits.                                     *)
(***************************************************************************)

\* bounds of the system model
NumProcs == 2
MaxDigestIds == 3
MaxTx == 2
MaxJobs == 2
MaxCalls == 5

\* retryWithBackoff's default maxRetries (src/src/util/index.ts:102)
MaxRetries == 3

\* retryWithBackoff's default baseDelay, in ms (src/src/util/index.ts:103)
BaseDelay == 1000

\* the ways an attempt fails: 0 is a transport exception (fetch rejects),
\* 500 a response that is not res.ok
ErrorStatuses == {0, 500}

Procs == 1..NumProcs

Idle ==
    [kind |-> "idle", pc |-> "idle", siteId |-> <<>>, dayUtc |-> 0,
     digestId |-> 0, digest |-> <<>>, result |-> <<>>, attempt |-> 0,
     requests |-> 0, waited |-> <<>>,
     anchorResult |-> <<>>, reply |-> <<>>]

\* a worker that takes no job while a handler waits in a backoff delay (not
\* the code: a delay that would hold the worker up)
FreeUnlessBackoff(p) ==
    /\ procs[p].pc \in {"idle", "done"}
    /\ \A q \in 1..(p - 1) : procs[q].pc \notin {"idle", "done"}
    /\ \A q \in Procs : procs[q].pc # "backoff"

\* a slot is free when its handler has answered; a new handler takes the
\* first free slot
Free(p) ==
    /\ procs[p].pc \in {"idle", "done"}
    /\ \A q \in 1..(p - 1) : procs[q].pc \notin {"idle", "done"}

\* a handler ends: its slot keeps what it answered
Done(p, reply) == [Idle EXCEPT !.kind = procs[p].kind, !.pc = "done",
                               !.siteId = procs[p].siteId,
                               !.dayUtc = procs[p].dayUtc,
                               !.digestId = procs[p].digestId,
                               !.result = procs[p].result,
                               !.requests = procs[p].requests,
                               !.waited = procs[p].waited,
                               !.reply = <<reply>>]

Reply(status, message, adapterTxId, txHash) ==
    [status |-> status, message |-> message,
     adapterTxId |-> adapterTxId, txHash |-> txHash]

\* a handler of the service touches neither a Merkle session nor the
\* scheduler's queues
mkUnchanged == UNCHANGED <<mkVars, schedVars>>

-----------------------------------------------------------------------------
(***************************************************************************)
(* POST /v1/ingest as one step                                             *)
(***************************************************************************)

IngestTelemetry(body) ==
    /\ LET r == ingestTelemetry(body, rawTelemetry)
       IN /\ rawTelemetry' = r.rows
          /\ ingestReply' = <<[body |-> body, reply |-> r.reply]>>
    /\ UNCHANGED <<hourlySummary, dailyDigest, nextDigestId, anchorVars>>
    /\ mkUnchanged

-----------------------------------------------------------------------------
(***************************************************************************)
(* aggregateDaily from POST /v1/recompute (src/src/api/admin.ts:149-202)   *)
(* and from the daily worker (src/unnamed/part_002:94-162)                 *)
(***************************************************************************)

\* aggregateDaily up to its upsert, for a handler of this kind: the slot
\* after site.findUnique and rawTelemetry.findMany
BeginAggregateDaily(kind, siteId, dayUtc) ==
    LET r == aggregateDailyResult(rawTelemetry, siteId, dayUtc)
        me == [Idle EXCEPT !.kind = kind, !.siteId = siteId, !.dayUtc = dayUtc]
    IN IF r[1] = "throw"
       THEN [me EXCEPT !.pc = "done",
                       !.reply = <<Reply(IF kind = "daily" THEN "failed" ELSE "500",
                                         "Internal server error", <<>>, <<>>)>>]
       ELSE IF r[1] = "null"
       THEN [me EXCEPT !.pc = "done",
                       !.reply = <<Reply(IF kind = "daily" THEN "completed" ELSE "404",
                                         "No data found for recomputation", <<>>, <<>>)>>]
       ELSE [me EXCEPT !.pc = "upsert", !.result = <<r[2]>>]

\* the handler starts: site.findUnique and rawTelemetry.findMany
StartAggregateDaily(p, kind, siteId, dayUtc) ==
    /\ Free(p)
    /\ started < MaxCalls
    /\ started' = started + 1
    /\ procs' = [procs EXCEPT ![p] = BeginAggregateDaily(kind, siteId, dayUtc)]
    /\ UNCHANGED <<storeVars, ingestReply, env, anchorQueue, adapter, everAnchored>>
    /\ mkUnchanged

\* prisma.dailyDigest.upsert, then the reply of the recompute route; the
\* daily worker goes on to look the digest up
AggregateDailyUpsert(p) ==
    /\ procs[p].pc = "upsert"
    /\ LET result == procs[p].result[1]
           creates == DigestsAt(dailyDigest, result.siteId, result.dayUtc) = {}
       IN /\ creates => nextDigestId <= MaxDigestIds
          /\ dailyDigest' = upsertDailyDigest(dailyDigest, result, nextDigestId)
          /\ nextDigestId' = IF creates THEN nextDigestId + 1 ELSE nextDigestId
          /\ procs' = [procs EXCEPT ![p] =
                IF procs[p].kind = "daily"
                THEN [procs[p] EXCEPT !.pc = "enqueue"]
                ELSE Done(p, Reply("200", "recomputed", <<>>, <<>>))]
    /\ UNCHANGED <<rawTelemetry, hourlySummary, ingestReply, env, anchorQueue,
                   adapter, everAnchored>>
    /\ UNCHANGED started
    /\ mkUnchanged

\* the daily worker after aggregateDaily: findUnique, anchorQueue.add
DailyEnqueueAnchor(p) ==
    /\ procs[p].pc = "enqueue"
    /\ LET found == DigestsAt(dailyDigest, procs[p].siteId, procs[p].dayUtc)
           adds == env.ANCHOR_ENABLED /\ \E d \in found : ~d.anchored
       IN /\ adds => Len(anchorQueue) < MaxJobs
          /\ anchorQueue' =
                IF adds
                THEN Append(anchorQueue, (CHOOSE d \in found : TRUE).id)
                ELSE anchorQueue
    /\ procs' = [procs EXCEPT ![p] = Done(p, Reply("completed", "", <<>>, <<>>))]
    /\ UNCHANGED <<storeVars, ingestReply, env, adapter, everAnchored>>
    /\ UNCHANGED started
    /\ mkUnchanged

-----------------------------------------------------------------------------
(***************************************************************************)
(* DELETE /v1/raw (src/src/api/admin.ts:293-362)                           *)
(***************************************************************************)

\* a purge whose first deleteMany takes `lte: dayEnd` (not the code: the
\* record at 00:00 of the next day would go as well)
StartPurgeThroughDayEnd(p, siteId, dayUtc) ==
    /\ Free(p)
    /\ started < MaxCalls
    /\ started' = started + 1
    /\ rawTelemetry' = { r \in rawTelemetry :
                            ~(/\ r.siteId = siteId
                              /\ r.tsUtc >= dayUtc
                              /\ r.tsUtc <= dayUtc + MsPerDay) }
    /\ procs' = [procs EXCEPT ![p] =
            [Idle EXCEPT !.kind = "purge", !.pc = "purgeHourly",
                         !.siteId = siteId, !.dayUtc = dayUtc]]
    /\ UNCHANGED <<hourlySummary, dailyDigest, nextDigestId, ingestReply,
                   env, anchorQueue, adapter, everAnchored>>
    /\ mkUnchanged

\* rawTelemetry.deleteMany: tsUtc in [dayUtc, dayUtc + 24h)
StartPurge(p, siteId, dayUtc) ==
    /\ Free(p)
    /\ started < MaxCalls
    /\ started' = started + 1
    /\ rawTelemetry' = { r \in rawTelemetry :
                            ~(/\ r.siteId = siteId
                              /\ r.tsUtc >= dayUtc
                              /\ r.tsUtc < dayUtc + MsPerDay) }
    /\ procs' = [procs EXCEPT ![p] =
            [Idle EXCEPT !.kind = "purge", !.pc = "purgeHourly",
                         !.siteId = siteId, !.dayUtc = dayUtc]]
    /\ UNCHANGED <<hourlySummary, dailyDigest, nextDigestId, ingestReply,
                   env, anchorQueue, adapter, everAnchored>>
    /\ mkUnchanged

\* hourlySummary.deleteMany: hourUtc in [dayUtc, dayUtc + 24h)
PurgeHourly(p) ==
    /\ procs[p].pc = "purgeHourly"
    /\ hourlySummary' = { h \in hourlySummary :
                            ~(/\ h.siteId = procs[p].siteId
                              /\ h.hourUtc >= procs[p].dayUtc
                              /\ h.hourUtc < procs[p].dayUtc + MsPerDay) }
    /\ procs' = [procs EXCEPT ![p].pc = "purgeDigest"]
    /\ UNCHANGED <<rawTelemetry, dailyDigest, nextDigestId, ingestReply,
                   env, anchorQueue, adapter, everAnchored>>
    /\ UNCHANGED started
    /\ mkUnchanged

\* dailyDigest.deleteMany({siteId, dayUtc}), then the reply
PurgeDigest(p) ==
    /\ procs[p].pc = "purgeDigest"
    /\ dailyDigest' = dailyDigest \ DigestsAt(dailyDigest, procs[p].siteId, procs[p].dayUtc)
    /\ procs' = [procs EXCEPT ![p] = Done(p, Reply("200", "purged", <<>>, <<>>))]
    /\ UNCHANGED <<rawTelemetry, hourlySummary, nextDigestId, ingestReply,
                   env, anchorQueue, adapter, everAnchored>>
    /\ UNCHANGED started
    /\ mkUnchanged

-----------------------------------------------------------------------------
(***************************************************************************)
(* AnchorService.anchorDigest (src/unnamed/part_001:52-145) as called by   *)
(* the anchor worker (src/unnamed/part_002:165-251) and by POST /v1/anchor *)
(* (src/src/api/admin.ts:205-290)                                          *)
(***************************************************************************)

\* `IOT:${digest.siteId}:${formatDate(digest.dayUtc)}`
Topic(digest) == <<digest.siteId, formatDate(digest.dayUtc)>>

AnchorSuccess(adapterTxId, txHash) ==
    [success |-> TRUE, adapterTxId |-> <<adapterTxId>>, txHash |-> <<txHash>>,
     error |-> <<>>]
AnchorFailure(error) ==
    [success |-> FALSE, adapterTxId |-> <<>>, txHash |-> <<>>, error |-> <<error>>]

\* anchorDigest up to its first await: the two configuration checks, then
\* the first fetch of retryWithBackoff
EnterAnchorDigestNoConfigCheck(me, digest) ==
    IF ~env.ANCHOR_ENABLED
    THEN [me EXCEPT !.pc = "update", !.digest = <<digest>>,
                    !.anchorResult = <<AnchorSuccess(<<"disabled", 0>>, <<"disabled", 0>>)>>]
    ELSE [me EXCEPT !.pc = "inflight", !.digest = <<digest>>, !.requests = 1]

EnterAnchorDigest(me, digest) ==
    IF ~env.ANCHOR_ENABLED
    THEN [me EXCEPT !.pc = "update", !.digest = <<digest>>,
                    !.anchorResult = <<AnchorSuccess(<<"disabled", 0>>, <<"disabled", 0>>)>>]
    ELSE IF ~env.ADAPTER_CONFIGURED
    THEN [me EXCEPT !.pc = "update", !.digest = <<digest>>,
                    !.anchorResult = <<AnchorFailure(<<"Adapter API not configured", 0>>)>>]
    ELSE [me EXCEPT !.pc = "inflight", !.digest = <<digest>>, !.requests = 1]

\* the same without the `digest.anchored` early return of the route
ManualAnchorNoCheck(me, found) ==
    IF found = {}
    THEN [me EXCEPT !.pc = "done",
                    !.reply = <<Reply("404", "Digest not found", <<>>, <<>>)>>]
    ELSE EnterAnchorDigest(me, CHOOSE d \in found : TRUE)

\* POST /v1/anchor from findUnique to the first await of anchorDigest
ManualAnchor(me, found) ==
    IF found = {}
    THEN [me EXCEPT !.pc = "done",
                    !.reply = <<Reply("404", "Digest not found", <<>>, <<>>)>>]
    ELSE LET digest == CHOOSE d \in found : TRUE
         IN IF digest.anchored
            THEN [me EXCEPT !.pc = "done",
                            !.reply = <<Reply("200", "Digest already anchored",
                                              digest.adapterTxId, digest.txHash)>>]
            ELSE EnterAnchorDigest(me, digest)

StartManualAnchor(p, siteId, dayUtc) ==
    /\ Free(p)
    /\ started < MaxCalls
    /\ started' = started + 1
    /\ procs' = [procs EXCEPT ![p] =
            ManualAnchor([Idle EXCEPT !.kind = "manualAnchor", !.siteId = siteId,
                                      !.dayUtc = dayUtc],
                         DigestsAt(dailyDigest, siteId, dayUtc))]
    /\ UNCHANGED <<storeVars, ingestReply, env, anchorQueue, adapter, everAnchored>>
    /\ mkUnchanged

\* the anchor worker from findUnique to the first await of anchorDigest
AnchorJob(me, found) ==
    IF found = {}
    THEN [me EXCEPT !.pc = "done",
                    !.reply = <<Reply("failed", "Digest not found", <<>>, <<>>)>>]
    ELSE LET digest == CHOOSE d \in found : TRUE
         IN IF digest.anchored
            THEN [me EXCEPT !.pc = "done",
                            !.reply = <<Reply("completed", "Digest already anchored, skipping",
                                              <<>>, <<>>)>>]
            ELSE EnterAnchorDigest(me, digest)

\* a worker takes the oldest job of the anchor queue
StartAnchorJob(p) ==
    /\ Free(p)
    /\ started < MaxCalls
    /\ started' = started + 1
    /\ anchorQueue # <<>>
    /\ anchorQueue' = Tail(anchorQueue)
    /\ procs' = [procs EXCEPT ![p] =
            AnchorJob([Idle EXCEPT !.kind = "anchorJob", !.digestId = Head(anchorQueue)],
                      DigestsById(dailyDigest, Head(anchorQueue)))]
    /\ UNCHANGED <<storeVars, ingestReply, env, adapter, everAnchored>>
    /\ mkUnchanged

\* the adapter accepts the submission in flight: res.ok, response.json()
AdapterAccepts(p) ==
    /\ procs[p].pc = "inflight"
    /\ adapter.nextTx <= MaxTx
    /\ LET digest == procs[p].digest[1]
           n == adapter.nextTx
       IN /\ adapter' = [nextTx |-> n + 1,
                         log |-> Append(adapter.log,
                                        [topic |-> Topic(digest),
                                         hash |-> digest.merkleRoot,
                                         digestId |-> digest.id, tx |-> n])]
          /\ procs' = [procs EXCEPT ![p].pc = "update",
                                    ![p].anchorResult =
                                        <<AnchorSuccess(<<"atx", n>>, <<"0x", n>>)>>]
    /\ UNCHANGED <<storeVars, ingestReply, env, anchorQueue, everAnchored>>
    /\ UNCHANGED started
    /\ mkUnchanged

RetryDelayLinear(attempt) == BaseDelay * (attempt + 1)

\* const delay = baseDelay * Math.pow(2, attempt)
RetryDelay(attempt) == BaseDelay * 2^attempt

\* retryWithBackoff's catch: lastError = error; after the last attempt the
\* loop ends and lastError is thrown, which anchorDigest turns into a
\* failure result; otherwise the handler waits for the delay
AfterRejection(me, status) ==
    IF me.attempt = MaxRetries
    THEN [me EXCEPT !.pc = "update",
                    !.anchorResult = <<AnchorFailure(<<"Adapter API returned", status>>)>>]
    ELSE [me EXCEPT !.pc = "backoff",
                    !.attempt = @ + 1,
                    !.waited = Append(@, RetryDelay(me.attempt))]

\* the adapter answers an attempt with the error status, or the fetch fails
AdapterRejects(p, status) ==
    /\ procs[p].pc = "inflight"
    /\ procs' = [procs EXCEPT ![p] = AfterRejection(procs[p], status)]
    /\ UNCHANGED <<storeVars, ingestReply, env, anchorQueue, adapter, everAnchored>>
    /\ UNCHANGED started
    /\ mkUnchanged

\* the delay is over: the loop calls fn() again
RetryFetch(p) ==
    /\ procs[p].pc = "backoff"
    /\ procs' = [procs EXCEPT ![p].pc = "inflight", ![p].requests = @ + 1]
    /\ UNCHANGED <<storeVars, ingestReply, env, anchorQueue, adapter, everAnchored>>
    /\ UNCHANGED started
    /\ mkUnchanged

WritesAlways(result) == TRUE

\* if (anchorResult.success): the handler goes on to dailyDigest.update
Writes(result) == result.success

\* after anchorDigest: prisma.dailyDigest.update({where: {id}}) on success
\* (it throws when the row is gone), then the answer of the caller
AnchorUpdate(p) ==
    /\ procs[p].pc = "update"
    /\ LET me == procs[p]
           result == me.anchorResult[1]
           id == me.digest[1].id
           found == DigestsById(dailyDigest, id)
           manual == me.kind = "manualAnchor"
       IN IF Writes(result) /\ found # {}
          THEN /\ dailyDigest' =
                    { IF d \in found
                      THEN [d EXCEPT !.anchored = TRUE,
                                     !.adapterTxId = result.adapterTxId,
                                     !.txHash = result.txHash]
                      ELSE d : d \in dailyDigest }
               /\ everAnchored' = everAnchored \cup
                                    { <<d.siteId, d.dayUtc>> : d \in found }
               /\ procs' = [procs EXCEPT ![p] =
                    Done(p, Reply(IF manual THEN "200" ELSE "completed",
                                  "Digest anchored successfully",
                                  result.adapterTxId, result.txHash))]
          ELSE /\ UNCHANGED <<dailyDigest, everAnchored>>
               /\ procs' = [procs EXCEPT ![p] =
                    Done(p, Reply(IF manual THEN "500" ELSE "failed",
                                  IF Writes(result) THEN "Internal server error"
                                  ELSE "Failed to anchor digest",
                                  <<>>, <<>>))]
    /\ UNCHANGED <<rawTelemetry, hourlySummary, nextDigestId, ingestReply, env,
                   anchorQueue, adapter>>
    /\ UNCHANGED started
    /\ mkUnchanged

-----------------------------------------------------------------------------
(***************************************************************************)
(* aggregateHourly (src/src/api/admin.ts:392-501)                          *)
(***************************************************************************)

\* the rows in which metric m is present
Present(rows, m) == { r \in rows : r[m] # <<>> }

\* sum(values) over the rows that carry metric m
RECURSIVE SumOf(_, _)
SumOf(rows, m) ==
    IF rows = {} THEN 0
    ELSE LET r == CHOOSE x \in rows : TRUE
         IN (IF r[m] = <<>> THEN 0 ELSE r[m][1]) + SumOf(rows \ {r}, m)

\* values.length > 0 ? max(values) : undefined
MaxOf(rows, m) ==
    LET present == Present(rows, m)
    IN IF present = {} THEN <<>>
       ELSE <<(CHOOSE r \in present : \A q \in present : q[m][1] <= r[m][1])[m][1]>>

\* values.length > 0 ? average(values) : undefined; the quotient
\* sum / length is kept as the pair of its numerator and denominator
AverageOf(rows, m) ==
    LET present == Present(rows, m)
    IN IF present = {} THEN <<>>
       ELSE <<[sum |-> SumOf(present, m), length |-> Cardinality(present)]>>

\* the rows of aggregateHourly's findMany: tsUtc in [hourStart, hourEnd]
HourRows(rows, siteId, hourUtc) ==
    { r \in rows : /\ r.siteId = siteId
                   /\ r.tsUtc >= getHourStart(hourUtc)
                   /\ r.tsUtc <= getHourStart(hourUtc) + MsPerHour - 1 }

\* the first half of aggregateHourly: <<"null">> for an hour without rows,
\* else <<"result", r>>
aggregateHourlyResult(rows, siteId, hourUtc) ==
    LET telemetryRecords == HourRows(rows, siteId, hourUtc)
    IN IF telemetryRecords = {} THEN <<"null">>
       ELSE <<"result",
              [siteId |-> siteId,
               hourUtc |-> getHourStart(hourUtc),
               energyKWh |-> SumOf(telemetryRecords, "acEnergyKWh"),
               maxPowerKw |-> MaxOf(telemetryRecords, "acPowerKw"),
               avgTempC |-> AverageOf(telemetryRecords, "tempC"),
               avgIrrWm2 |-> AverageOf(telemetryRecords, "poaIrrWm2"),
               rows |-> Cardinality(telemetryRecords)]>>

SummariesAt(summaries, siteId, hourUtc) ==
    { h \in summaries : h.siteId = siteId /\ h.hourUtc = hourUtc }

\* prisma.hourlySummary.upsert (src/src/api/admin.ts:457-479): an undefined
\* value in `update` leaves the column as it was
upsertHourlySummary(summaries, result) ==
    LET found == SummariesAt(summaries, result.siteId, result.hourUtc)
    IN IF found = {}
       THEN summaries \cup {result}
       ELSE { IF h \in found
              THEN [h EXCEPT !.energyKWh = result.energyKWh,
                             !.maxPowerKw = SetUnlessUndefined(@, result.maxPowerKw),
                             !.avgTempC = SetUnlessUndefined(@, result.avgTempC),
                             !.avgIrrWm2 = SetUnlessUndefined(@, result.avgIrrWm2),
                             !.rows = result.rows]
              ELSE h : h \in summaries }

-----------------------------------------------------------------------------
(***************************************************************************)
(* MQTT and pull ingestion (src/src/ingest/mqtt.ts)                        *)
(***************************************************************************)

\* siteConfigs (src/src/config/sites.ts:4-24)
SiteConfigs ==
    { [id |-> PRJ001, pullEnabled |-> TRUE],
      [id |-> PRJ002, pullEnabled |-> FALSE] }

\* the configurations found for the id: none stands for null
getSiteConfig(siteId) == { c \in SiteConfigs : c.id = siteId }

\* a message without tsUtc
NoTimestamp == [ok |-> FALSE, instant |-> -1]

\* the pipeline with clampValues ahead of the validation (not the code: the
\* clamp turns NaN into undefined, which the schema accepts)
StoreOneClampFirst(input, rows) ==
    IF ~SchemaAccepts(clampValues(input))
    THEN rows
    ELSE upsertRawTelemetry(rows, normalizeTelemetry(clampValues(input)))

\* validateTelemetryInput, clampValues, normalizeTelemetry and the upsert of
\* one input; the ZodError of an input the schema rejects is caught by the
\* caller, which logs it and stores nothing
StoreOne(input, rows) ==
    IF ~SchemaAccepts(input)
    THEN rows
    ELSE upsertRawTelemetry(rows, normalizeTelemetry(clampValues(input)))

\* MQTTIngester.handleMessage for a message on iot/{siteId}/telemetry that
\* arrives at the instant `now`
handleMessage(siteId, data, now, rows) ==
    IF siteId = <<>> \/ getSiteConfig(siteId) = {}
    THEN rows
    ELSE StoreOne([data EXCEPT !.siteId = siteId,
                               !.source = "mqtt",
                               !.tsUtc = IF @ = NoTimestamp
                                         THEN [ok |-> TRUE, instant |-> now]
                                         ELSE @],
                  rows)

\* the loop of pullFromSim over the data points from point i on
RECURSIVE PullLoop(_, _, _, _)
PullLoop(siteId, simData, i, rows) ==
    IF i > Len(simData) THEN rows
    ELSE PullLoop(siteId, simData, i + 1,
                  StoreOne([simData[i] EXCEPT !.siteId = siteId,
                                              !.source = "pull",
                                              !.uniqKey = <<>>],
                           rows))

\* PullIngester.pullFromSim with SIM_BASE_URL set, the simulator answering
\* with simData
pullFromSim(siteId, simData, rows) ==
    IF \A c \in getSiteConfig(siteId) : ~c.pullEnabled
    THEN rows
    ELSE PullLoop(siteId, simData, 1, rows)

HandleMessage(siteId, data, now) ==
    /\ rawTelemetry' = handleMessage(siteId, data, now, rawTelemetry)
    /\ UNCHANGED <<hourlySummary, dailyDigest, nextDigestId, ingestReply, anchorVars>>
    /\ mkUnchanged

PullFromSim(siteId, simData) ==
    /\ rawTelemetry' = pullFromSim(siteId, simData, rawTelemetry)
    /\ UNCHANGED <<hourlySummary, dailyDigest, nextDigestId, ingestReply, anchorVars>>
    /\ mkUnchanged

-----------------------------------------------------------------------------
(***************************************************************************)
(* The scheduler (src/unnamed/part_002:42-162, 257-281)                    *)
(***************************************************************************)

\* 'all'
ALL == <<97, 108, 108>>

Job(siteId, instant) == [siteId |-> siteId, instant |-> instant]

\* the jobs waiting on the hourly and daily queues
Waiting == Len(hourlyQueue) + Len(dailyQueue)

\* scheduleRecurringJobs() at the instant `now`: the data of the two
\* repeatable jobs is built once, here
ScheduleRecurringJobs(now) ==
    /\ schedule = <<>>
    /\ schedule' = <<[hourly |-> Job(ALL, now), daily |-> Job(ALL, now)]>>
    /\ UNCHANGED <<hourlyQueue, dailyQueue, batchRun, ran>>
    /\ UNCHANGED <<mkVars, storeVars, ingestReply, anchorVars>>

\* cron '0 * * * *' fires: the queue gets a job with the registered data
HourlyTrigger ==
    /\ schedule # <<>>
    /\ Waiting < MaxJobs
    /\ hourlyQueue' = Append(hourlyQueue, schedule[1].hourly)
    /\ UNCHANGED <<dailyQueue, schedule, batchRun, ran>>
    /\ UNCHANGED <<mkVars, storeVars, ingestReply, anchorVars>>

\* cron '0 1 * * *' fires
DailyTrigger ==
    /\ schedule # <<>>
    /\ Waiting < MaxJobs
    /\ dailyQueue' = Append(dailyQueue, schedule[1].daily)
    /\ UNCHANGED <<hourlyQueue, schedule, batchRun, ran>>
    /\ UNCHANGED <<mkVars, storeVars, ingestReply, anchorVars>>

\* a producer puts a job for one site on the exported dailyQueue
AddDailyJob(siteId, dayUtc) ==
    /\ Waiting < MaxJobs
    /\ dailyQueue' = Append(dailyQueue, Job(siteId, dayUtc))
    /\ UNCHANGED <<hourlyQueue, schedule, batchRun, ran>>
    /\ UNCHANGED <<mkVars, storeVars, ingestReply, anchorVars>>

\* a producer puts a job for one site on the exported hourlyQueue
AddHourlyJob(siteId, hourUtc) ==
    /\ Waiting < MaxJobs
    /\ hourlyQueue' = Append(hourlyQueue, Job(siteId, hourUtc))
    /\ UNCHANGED <<dailyQueue, schedule, batchRun, ran>>
    /\ UNCHANGED <<mkVars, storeVars, ingestReply, anchorVars>>

\* the hourly worker takes the oldest job: aggregateHourly up to its upsert
StartHourlyJob(p) ==
    /\ Free(p)
    /\ started < MaxCalls
    /\ started' = started + 1
    /\ hourlyQueue # <<>>
    /\ hourlyQueue' = Tail(hourlyQueue)
    /\ LET job == Head(hourlyQueue)
           r == aggregateHourlyResult(rawTelemetry, job.siteId, job.instant)
           me == [Idle EXCEPT !.kind = "hourly", !.siteId = job.siteId,
                              !.dayUtc = job.instant]
       IN /\ ran' = ran \cup {<<"hourly", job.siteId, job.instant>>}
          /\ procs' = [procs EXCEPT ![p] =
                IF r[1] = "null"
                THEN [me EXCEPT !.pc = "done",
                                !.reply = <<Reply("completed", "No telemetry records found",
                                                  <<>>, <<>>)>>]
                ELSE [me EXCEPT !.pc = "upsertHourly", !.result = <<r[2]>>]]
    /\ UNCHANGED <<dailyQueue, schedule, batchRun>>
    /\ UNCHANGED <<mkVars, storeVars, ingestReply, env, anchorQueue, adapter, everAnchored>>

\* prisma.hourlySummary.upsert, then the job returns its result
HourlyUpsert(p) ==
    /\ procs[p].pc = "upsertHourly"
    /\ hourlySummary' = upsertHourlySummary(hourlySummary, procs[p].result[1])
    /\ procs' = [procs EXCEPT ![p] = Done(p, Reply("completed", "", <<>>, <<>>))]
    /\ UNCHANGED <<rawTelemetry, dailyDigest, nextDigestId, ingestReply, env,
                   anchorQueue, adapter, everAnchored, started>>
    /\ mkUnchanged

\* the daily worker takes the oldest job: aggregateDaily up to its upsert
StartDailyJob(p) ==
    /\ Free(p)
    /\ started < MaxCalls
    /\ started' = started + 1
    /\ dailyQueue # <<>>
    /\ dailyQueue' = Tail(dailyQueue)
    /\ LET job == Head(dailyQueue)
       IN /\ ran' = ran \cup {<<"daily", job.siteId, job.instant>>}
          /\ procs' = [procs EXCEPT ![p] =
                          BeginAggregateDaily("daily", job.siteId, job.instant)]
    /\ UNCHANGED <<hourlyQueue, schedule, batchRun>>
    /\ UNCHANGED <<mkVars, storeVars, ingestReply, env, anchorQueue, adapter, everAnchored>>

\* aggregateAllSitesHourly / aggregateAllSitesDaily
\* (src/src/api/admin.ts:619-663): prisma.site.findMany, then one
\* aggregation per site inside its own try/catch.  results holds the pairs
\* <<site id, <<>> for null or <<result>>>>; failed remembers the sites
\* whose aggregation threw.
StartBatch(kind, instant) ==
    /\ batchRun = <<>>
    /\ batchRun' = <<[kind |-> kind, instant |-> instant, pc |-> "loop",
                      todo |-> { site.id : site \in SiteTable },
                      results |-> {}, failed |-> {}]>>
    /\ UNCHANGED <<hourlyQueue, dailyQueue, schedule, ran>>
    /\ UNCHANGED <<mkVars, storeVars, ingestReply, anchorVars>>

\* the loop has no site left: return results
Returned(run) == IF run.todo = {} THEN [run EXCEPT !.pc = "done"] ELSE run

\* the catch branch: results[site.id] = null, and the loop goes on
AfterSiteFailureAbort(run, site) ==
    Returned([run EXCEPT !.todo = {}, !.failed = @ \cup {site}])

AfterSiteFailure(run, site) ==
    Returned([run EXCEPT !.todo = @ \ {site},
                         !.results = @ \cup {<<site, <<>> >>},
                         !.failed = @ \cup {site}])

\* results[site.id] = await this.aggregateX(site.id, instant)
AfterSite(run, site, r) ==
    Returned([run EXCEPT !.todo = @ \ {site},
                         !.results = @ \cup {<<site, IF r[1] = "result"
                                                     THEN <<r[2]>> ELSE <<>> >>}])

\* one turn of the loop for a site that findMany returned; throws says
\* whether a database call of the aggregation rejects
BatchSite(site, throws) ==
    /\ batchRun # <<>>
    /\ batchRun[1].pc = "loop"
    /\ site \in batchRun[1].todo
    /\ LET run == batchRun[1]
           h == aggregateHourlyResult(rawTelemetry, site, run.instant)
           d == aggregateDailyResult(rawTelemetry, site, run.instant)
           r == IF run.kind = "hourly" THEN h ELSE d
           creates == /\ run.kind = "daily"
                      /\ d[1] = "result"
                      /\ DigestsAt(dailyDigest, site, d[2].dayUtc) = {}
       IN /\ ran' = ran \cup {<<run.kind, site, run.instant>>}
          /\ IF throws \/ r[1] = "throw"
             THEN /\ batchRun' = <<AfterSiteFailure(run, site)>>
                  /\ UNCHANGED <<hourlySummary, dailyDigest, nextDigestId>>
             ELSE /\ batchRun' = <<AfterSite(run, site, r)>>
                  /\ creates => nextDigestId <= MaxDigestIds
                  /\ hourlySummary' =
                        IF run.kind = "hourly" /\ h[1] = "result"
                        THEN upsertHourlySummary(hourlySummary, h[2])
                        ELSE hourlySummary
                  /\ dailyDigest' =
                        IF run.kind = "daily" /\ d[1] = "result"
                        THEN upsertDailyDigest(dailyDigest, d[2], nextDigestId)
                        ELSE dailyDigest
                  /\ nextDigestId' = IF creates THEN nextDigestId + 1 ELSE nextDigestId
    /\ UNCHANGED <<hourlyQueue, dailyQueue, schedule>>
    /\ UNCHANGED <<mkVars, rawTelemetry, ingestReply, anchorVars>>

-----------------------------------------------------------------------------
(***************************************************************************)
(* Initial states and specifications                                       *)
(***************************************************************************)

StoreInit ==
    /\ rawTelemetry = {}
    /\ hourlySummary = {}
    /\ dailyDigest = {}
    /\ nextDigestId = 1
    /\ ingestReply = <<>>

\* env is read once at start (src/src/config/index.ts:5-33):
\* ADAPTER_CONFIGURED stands for ADAPTER_API_URL && ADAPTER_API_KEY
AnchorInit ==
    /\ env \in { [ANCHOR_ENABLED |-> TRUE, ADAPTER_CONFIGURED |-> TRUE],
                 [ANCHOR_ENABLED |-> TRUE, ADAPTER_CONFIGURED |-> FALSE],
                 [ANCHOR_ENABLED |-> FALSE, ADAPTER_CONFIGURED |-> TRUE] }
    /\ anchorQueue = <<>>
    /\ procs = [p \in Procs |-> Idle]
    /\ adapter = [nextTx |-> 1, log |-> <<>>]
    /\ everAnchored = {}
    /\ started = 0

\* no job is scheduled yet and no batch run was made
SchedInit ==
    /\ hourlyQueue = <<>>
    /\ dailyQueue = <<>>
    /\ schedule = <<>>
    /\ batchRun = <<>>
    /\ ran = {}

\* a deployment with anchoring switched on and the adapter configured
AnchorOn == env.ANCHOR_ENABLED /\ env.ADAPTER_CONFIGURED

\* no Merkle session is open
MerkleIdle ==
    /\ mkInput = <<>>
    /\ mkLast = <<>>
    /\ mkTree = <<>>
    /\ mkProof = <<>>
    /\ mkVerify = <<>>

RootNext ==
    \/ GenerateMerkleRoot
    \/ \E i \in 1..MaxLeaves : Reorder(i)
    \/ DuplicateLast

\* a Merkle session on a list of row hashes, the service at rest
SessionInit == MerkleInit /\ StoreInit /\ AnchorInit /\ AnchorOn /\ SchedInit

\* the Merkle root under reordering and duplication of the input
SpecRoot == SessionInit /\ [][RootNext]_vars

ProofNext ==
    \/ GenerateMerkleRoot
    \/ BuildMerkleTree
    \/ \E leaf \in HashPool : GetProof(leaf)
    \/ VerifyGiven
    \/ VerifyTampered
    \/ VerifyWrongLeaf

\* Merkle proofs: generation and verification
SpecProof == SessionInit /\ [][ProofNext]_vars

\* a reading as a client writes it: a site, a timestamp and the five metrics
Reading(siteId, tsUtc, poaIrrWm2, tempC, windMps, acPowerKw, acEnergyKWh) ==
    [siteId |-> siteId, tsUtc |-> tsUtc,
     poaIrrWm2 |-> poaIrrWm2, tempC |-> tempC, windMps |-> windMps,
     acPowerKw |-> acPowerKw, acEnergyKWh |-> acEnergyKWh,
     status |-> <<StatusOK>>, source |-> "http", uniqKey |-> <<>>]

\* a timestamp string that parses to the instant, and one that does not parse
At(instant) == [ok |-> TRUE, instant |-> instant]
Malformed == [ok |-> FALSE, instant |-> 0]

\* the day of the model and two instants of it
Day1 == MsPerDay
T1 == Day1 + MsPerHour
T2 == Day1 + 2 * MsPerHour

\* the readings of the system model: 1.5 kWh at T1
SystemReadings ==
    { Reading(PRJ001, At(T1), <<>>, <<>>, <<>>, <<>>, <<Num(15000)>>) }

\* PRJ001 has readings, PRJ002 is a site without any, PRJ009 is no site
SiteIds == {PRJ001, PRJ002}

Next ==
    \/ \E r \in SystemReadings : IngestTelemetry([telemetry |-> << <<r>> >>])
    \/ \E p \in Procs, s \in SiteIds \cup {PRJ009} :
            StartAggregateDaily(p, "recompute", s, Day1)
    \/ \E p \in Procs : StartAggregateDaily(p, "daily", PRJ001, Day1)
    \/ \E p \in Procs : AggregateDailyUpsert(p)
    \/ \E p \in Procs : DailyEnqueueAnchor(p)
    \/ \E p \in Procs : StartPurge(p, PRJ001, Day1)
    \/ \E p \in Procs : PurgeHourly(p)
    \/ \E p \in Procs : PurgeDigest(p)
    \/ \E p \in Procs, s \in SiteIds : StartManualAnchor(p, s, Day1)
    \/ \E p \in Procs : StartAnchorJob(p)
    \/ \E p \in Procs : AdapterAccepts(p)
    \/ \E p \in Procs, status \in ErrorStatuses : AdapterRejects(p, status)
    \/ \E p \in Procs : RetryFetch(p)
    \/ \E p \in Procs : AnchorUpdate(p)

Init == MerkleIdle /\ StoreInit /\ AnchorInit /\ SchedInit

\* the service: ingestion, aggregation, anchoring and purge, interleaved
Spec == Init /\ [][Next]_vars

\* The scheduler: the recurring triggers, producers of jobs for one site,
\* and the hourly and daily workers, with anchoring enabled.
JobInstants == {Day1, T1}

SchedNext ==
    \/ \E r \in SystemReadings : IngestTelemetry([telemetry |-> << <<r>> >>])
    \/ ScheduleRecurringJobs(T1)
    \/ HourlyTrigger
    \/ DailyTrigger
    \/ AddHourlyJob(PRJ001, T1)
    \/ \E d \in JobInstants : AddDailyJob(PRJ001, d)
    \/ \E p \in Procs : StartHourlyJob(p)
    \/ \E p \in Procs : HourlyUpsert(p)
    \/ \E p \in Procs : StartDailyJob(p)
    \/ \E p \in Procs : AggregateDailyUpsert(p)
    \/ \E p \in Procs : DailyEnqueueAnchor(p)

SchedStart == MerkleIdle /\ StoreInit /\ AnchorInit /\ AnchorOn /\ SchedInit

SpecSched == SchedStart /\ [][SchedNext]_vars

\* aggregateDaily run again and again, one run after the other or
\* overlapping, by the recompute route and by the daily worker, on records
\* that no longer change once the first run has started.
DailyReadings ==
    { Reading(PRJ001, At(T1), <<>>, <<>>, <<>>, <<>>, <<Num(15000)>>),
      Reading(PRJ001, At(T2), <<>>, <<>>, <<>>, <<>>, <<Num(5000)>>) }

\* a reading ingested before the first run starts
IngestBeforeRuns(r) ==
    /\ started = 0
    /\ IngestTelemetry([telemetry |-> << <<r>> >>])

DailyNext ==
    \/ \E r \in DailyReadings : IngestBeforeRuns(r)
    \/ \E p \in Procs : StartAggregateDaily(p, "recompute", PRJ001, Day1)
    \/ \E p \in Procs, d \in JobInstants : StartAggregateDaily(p, "daily", PRJ001, d)
    \/ \E p \in Procs : AggregateDailyUpsert(p)
    \/ \E p \in Procs : DailyEnqueueAnchor(p)

DailyStart == MerkleIdle /\ StoreInit /\ AnchorInit /\ AnchorOn /\ SchedInit

SpecDaily == DailyStart /\ [][DailyNext]_vars

\* Ingestion over the three transports: readings of two instants, with
\* different metrics, one without an instant and one the schema rejects.
TransportReadings ==
    { Reading(PRJ001, At(T1), <<>>, <<>>, <<>>, <<>>, <<Num(15000)>>),
      Reading(PRJ001, At(T1), <<>>, <<>>, <<>>, <<Num(20000)>>, <<>>),
      Reading(PRJ001, At(T2), <<>>, <<Num(250000)>>, <<>>, <<>>, <<Num(5000)>>),
      Reading(PRJ001, NoTimestamp, <<>>, <<>>, <<>>, <<>>, <<Num(5000)>>),
      Reading(PRJ001, Malformed, <<>>, <<>>, <<>>, <<>>, <<Num(5000)>>) }

\* the sites named by a topic or a pull
TransportSites == {PRJ001, PRJ002, PRJ009}

TransportNext ==
    \/ \E r \in TransportReadings : IngestTelemetry([telemetry |-> << <<r>> >>])
    \/ \E s \in TransportSites, r \in TransportReadings : HandleMessage(s, r, T2)
    \/ \E s \in TransportSites, r \in TransportReadings : PullFromSim(s, <<r>>)

TransportStart == MerkleIdle /\ StoreInit /\ AnchorInit /\ AnchorOn /\ SchedInit

SpecTransport == TransportStart /\ [][TransportNext]_vars

\* aggregateDaily called for known and unknown sites and for days with and
\* without records, while readings keep arriving: PRJ001 has a reading on
\* day 1, PRJ002 has none, PRJ009 is not in the site table and a reading
\* naming it may be in the store.
NoDataReadings ==
    { Reading(PRJ001, At(T1), <<>>, <<>>, <<>>, <<>>, <<Num(15000)>>),
      Reading(PRJ009, At(T1), <<>>, <<>>, <<>>, <<>>, <<Num(5000)>>) }

Day2 == Day1 + MsPerDay

NoDataNext ==
    \/ \E r \in NoDataReadings : IngestTelemetry([telemetry |-> << <<r>> >>])
    \/ \E p \in Procs, kind \in {"recompute", "daily"},
          s \in TransportSites, d \in {Day1, Day2} :
            StartAggregateDaily(p, kind, s, d)
    \/ \E p \in Procs : AggregateDailyUpsert(p)
    \/ \E p \in Procs : DailyEnqueueAnchor(p)

NoDataStart == MerkleIdle /\ StoreInit /\ AnchorInit /\ AnchorOn /\ SchedInit

SpecNoData == NoDataStart /\ [][NoDataNext]_vars

\* The digest of a day: three readings of 1, 2 and 3 kWh for PRJ001 on day
\* 1 posted together, and a second batch with a reading of power only, one
\* in the last millisecond of day 1, one in the first of day 2 and one of
\* PRJ002; the runs start when the records no longer change.
T3 == Day1 + 3 * MsPerHour

DigestBatches ==
    { << Reading(PRJ001, At(T1), <<>>, <<>>, <<>>, <<>>, <<Num(10000)>>),
         Reading(PRJ001, At(T2), <<>>, <<>>, <<>>, <<>>, <<Num(20000)>>),
         Reading(PRJ001, At(T3), <<>>, <<>>, <<>>, <<>>, <<Num(30000)>>) >>,
      << Reading(PRJ001, At(T3 + MsPerHour), <<>>, <<>>, <<>>, <<Num(25000)>>, <<>>),
         Reading(PRJ001, At(Day2 - 1), <<>>, <<>>, <<>>, <<>>, <<Num(2500)>>),
         Reading(PRJ001, At(Day2), <<>>, <<>>, <<>>, <<>>, <<Num(40000)>>),
         Reading(PRJ002, At(T1), <<>>, <<>>, <<>>, <<>>, <<Num(50000)>>) >> }

\* a batch ingested before the first run starts
IngestBatchBeforeRuns(batch) ==
    /\ started = 0
    /\ IngestTelemetry([telemetry |-> <<batch>>])

DigestNext ==
    \/ \E b \in DigestBatches : IngestBatchBeforeRuns(b)
    \/ \E p \in Procs, s \in SiteIds, d \in {Day1, Day2} :
          StartAggregateDaily(p, "recompute", s, d)
    \/ \E p \in Procs : StartAggregateDaily(p, "daily", PRJ001, T2)
    \/ \E p \in Procs : AggregateDailyUpsert(p)
    \/ \E p \in Procs : DailyEnqueueAnchor(p)

DigestStart == MerkleIdle /\ StoreInit /\ AnchorInit /\ AnchorOn /\ SchedInit

SpecDigest == DigestStart /\ [][DigestNext]_vars

\* The hourly summary: readings of the hour of T1 with and without power
\* and temperature, hourly jobs for that hour and for an hour without
\* records, and the purge of the day.
HourlyReadings ==
    { Reading(PRJ001, At(T1), <<>>, <<Num(250000)>>, <<>>, <<Num(20000)>>, <<Num(15000)>>),
      Reading(PRJ001, At(T1 + 60000), <<>>, <<>>, <<>>, <<>>, <<Num(5000)>>) }

HourlyNext ==
    \/ \E r \in HourlyReadings : IngestTelemetry([telemetry |-> << <<r>> >>])
    \/ \E h \in {T1, T3} : AddHourlyJob(PRJ001, h)
    \/ \E p \in Procs : StartHourlyJob(p)
    \/ \E p \in Procs : HourlyUpsert(p)
    \/ \E p \in Procs : StartPurge(p, PRJ001, Day1)
    \/ \E p \in Procs : PurgeHourly(p)
    \/ \E p \in Procs : PurgeDigest(p)

HourlyStart == MerkleIdle /\ StoreInit /\ AnchorInit /\ AnchorOn /\ SchedInit

SpecHourly == HourlyStart /\ [][HourlyNext]_vars

\* Accepted and rejected records over the three transports: two readings
\* the schema accepts and three it rejects (empty site id, malformed
\* timestamp, NaN), in requests and pulls of one or two records and in MQTT
\* messages on the topics of a configured site, of no site and of an
\* unknown one.
RejectReadings ==
    { Reading(PRJ001, At(T1), <<>>, <<>>, <<>>, <<>>, <<Num(12346)>>),
      Reading(PRJ001, At(T2), <<>>, <<Num(-60 * Scale)>>, <<>>, <<>>, <<>>),
      Reading(<<>>, At(T1), <<>>, <<>>, <<>>, <<>>, <<Num(12346)>>),
      Reading(PRJ001, Malformed, <<>>, <<>>, <<>>, <<>>, <<Num(12346)>>),
      Reading(PRJ001, At(T2), <<>>, <<>>, <<>>, <<>>, <<NaN>>) }

\* one record, or two of which the second is the accepted reading at T1 or
\* the one with NaN
RejectLists ==
    { <<r>> : r \in RejectReadings }
    \cup { <<r, q>> : r \in RejectReadings,
                      q \in { x \in RejectReadings :
                                \/ (x.tsUtc = At(T1) /\ x.siteId = PRJ001)
                                \/ x.acEnergyKWh = <<NaN>> } }

TopicSites == {PRJ001, PRJ009, <<>>}

RejectNext ==
    \/ \E list \in RejectLists : IngestTelemetry([telemetry |-> <<list>>])
    \/ \E s \in TopicSites, r \in RejectReadings : HandleMessage(s, r, T2)
    \/ \E list \in RejectLists : PullFromSim(PRJ001, list)

RejectStart == MerkleIdle /\ StoreInit /\ AnchorInit /\ AnchorOn /\ SchedInit

SpecReject == RejectStart /\ [][RejectNext]_vars

\* Normalization: readings with more digits than the store keeps, posted
\* alone or in pairs: 800.1234 W/m2, 25.6789 degrees, 3.4567 m/s, 2.3456 kW
\* and 1.2345 kWh; -12.3449 degrees, 0.0004 kW and 0.0049 kWh; 999.9951 kWh
\* and 0.0499 m/s; 1.2399 kWh alone at another site; 85.5678 degrees.
NormalizeReadings ==
    { Reading(PRJ001, At(T1), <<Num(8001234)>>, <<Num(256789)>>, <<Num(34567)>>,
              <<Num(23456)>>, <<Num(12345)>>),
      Reading(PRJ001, At(T2), <<>>, <<Num(-123449)>>, <<>>, <<Num(4)>>, <<Num(49)>>),
      Reading(PRJ001, At(T1), <<>>, <<>>, <<Num(499)>>, <<>>, <<Num(9999951)>>),
      Reading(PRJ002, At(T1), <<>>, <<>>, <<>>, <<>>, <<Num(12399)>>),
      Reading(PRJ002, At(T2), <<>>, <<Num(855678)>>, <<>>, <<>>, <<>>) }

NormalizeNext ==
    \E list \in UNION { [1..n -> NormalizeReadings] : n \in 1..2 } :
        IngestTelemetry([telemetry |-> <<list>>])

NormalizeStart == MerkleIdle /\ StoreInit /\ AnchorInit /\ AnchorOn /\ SchedInit

SpecNormalize == NormalizeStart /\ [][NormalizeNext]_vars

\* Anchor jobs for the digests of two sites: one request brings a reading
\* of PRJ001 and one of PRJ002, the daily jobs of both sites write their
\* digests and enqueue the anchor jobs, and the adapter accepts or rejects
\* each attempt.
BackoffReadings ==
    << Reading(PRJ001, At(T1), <<>>, <<>>, <<>>, <<>>, <<Num(15000)>>),
       Reading(PRJ002, At(T1), <<>>, <<>>, <<>>, <<>>, <<Num(5000)>>) >>

BackoffNext ==
    \/ IngestBatchBeforeRuns(BackoffReadings)
    \/ \E p \in Procs, s \in SiteIds : StartAggregateDaily(p, "daily", s, Day1)
    \/ \E p \in Procs : AggregateDailyUpsert(p)
    \/ \E p \in Procs : DailyEnqueueAnchor(p)
    \/ \E p \in Procs : StartAnchorJob(p)
    \/ \E p \in Procs : AdapterAccepts(p)
    \/ \E p \in Procs : AdapterRejects(p, 500)
    \/ \E p \in Procs : RetryFetch(p)
    \/ \E p \in Procs : AnchorUpdate(p)

BackoffStart == MerkleIdle /\ StoreInit /\ AnchorInit /\ AnchorOn /\ SchedInit

SpecBackoff == BackoffStart /\ [][BackoffNext]_vars

\* Recompute and anchoring of one digest while the readings of its day
\* arrive: the recompute route and the anchor route for (PRJ001, day 1), the
\* adapter accepting every submission.
ReanchorNext ==
    \/ \E r \in DailyReadings : IngestTelemetry([telemetry |-> << <<r>> >>])
    \/ \E p \in Procs : StartAggregateDaily(p, "recompute", PRJ001, Day1)
    \/ \E p \in Procs : AggregateDailyUpsert(p)
    \/ \E p \in Procs : StartManualAnchor(p, PRJ001, Day1)
    \/ \E p \in Procs : AdapterAccepts(p)
    \/ \E p \in Procs : AnchorUpdate(p)

ReanchorStart == MerkleIdle /\ StoreInit /\ AnchorInit /\ AnchorOn /\ SchedInit

SpecReanchor == ReanchorStart /\ [][ReanchorNext]_vars

\* The purge of (PRJ001, day 1) among records, summaries and digests of
\* that day, of the next day and of another site: one request brings
\* readings of PRJ001 at the first and the last millisecond of day 1 and at
\* the first of day 2, and one of PRJ002 on day 1.
PurgeReadings ==
    << Reading(PRJ001, At(Day1), <<>>, <<>>, <<>>, <<Num(20000)>>, <<Num(10000)>>),
       Reading(PRJ001, At(Day2 - 1), <<>>, <<>>, <<>>, <<>>, <<Num(2500)>>),
       Reading(PRJ001, At(Day2), <<>>, <<>>, <<>>, <<>>, <<Num(40000)>>),
       Reading(PRJ002, At(T1), <<>>, <<>>, <<>>, <<>>, <<Num(50000)>>) >>

\* the hours and the days that are aggregated
PurgeHours == {<<PRJ001, Day1>>, <<PRJ002, T1>>}
PurgeDays == {<<PRJ001, Day1>>, <<PRJ001, Day2>>}

\* a producer adds a job when no hourly job waits
AddHourlyJobWhenNoneWaits(siteId, hourUtc) ==
    /\ hourlyQueue = <<>>
    /\ AddHourlyJob(siteId, hourUtc)

PurgeNext ==
    \/ IngestBatchBeforeRuns(PurgeReadings)
    \/ \E t \in PurgeHours : AddHourlyJobWhenNoneWaits(t[1], t[2])
    \/ \E p \in Procs : StartHourlyJob(p)
    \/ \E p \in Procs : HourlyUpsert(p)
    \/ \E p \in Procs, t \in PurgeDays :
          StartAggregateDaily(p, "recompute", t[1], t[2])
    \/ \E p \in Procs : AggregateDailyUpsert(p)
    \/ \E p \in Procs : StartPurge(p, PRJ001, Day1)
    \/ \E p \in Procs : PurgeHourly(p)
    \/ \E p \in Procs : PurgeDigest(p)

PurgeStart == MerkleIdle /\ StoreInit /\ AnchorInit /\ AnchorOn /\ SchedInit

SpecPurge == PurgeStart /\ [][PurgeNext]_vars

\* The all-sites aggregation over readings of both configured sites.
BatchReadings ==
    { Reading(PRJ001, At(T1), <<>>, <<>>, <<>>, <<Num(20000)>>, <<Num(15000)>>),
      Reading(PRJ002, At(T1), <<>>, <<>>, <<>>, <<>>, <<Num(5000)>>) }

BatchNext ==
    \/ \E r \in BatchReadings : IngestTelemetry([telemetry |-> << <<r>> >>])
    \/ \E kind \in {"hourly", "daily"}, t \in JobInstants : StartBatch(kind, t)
    \/ \E s \in SiteIds, throws \in BOOLEAN : BatchSite(s, throws)

BatchStart == MerkleIdle /\ StoreInit /\ AnchorInit /\ AnchorOn /\ SchedInit

SpecBatch == BatchStart /\ [][BatchNext]_vars

\* no handler is between two of its steps
Quiet == \A p \in Procs : procs[p].pc \in {"idle", "done"}

SeqNext ==
    \/ \E r \in SystemReadings : IngestTelemetry([telemetry |-> << <<r>> >>])
    \/ \E p \in Procs, s \in SiteIds \cup {PRJ009} :
            Quiet /\ StartAggregateDaily(p, "recompute", s, Day1)
    \/ \E p \in Procs : Quiet /\ StartAggregateDaily(p, "daily", PRJ001, Day1)
    \/ \E p \in Procs : AggregateDailyUpsert(p)
    \/ \E p \in Procs : DailyEnqueueAnchor(p)
    \/ \E p \in Procs : Quiet /\ StartPurge(p, PRJ001, Day1)
    \/ \E p \in Procs : PurgeHourly(p)
    \/ \E p \in Procs : PurgeDigest(p)
    \/ \E p \in Procs, s \in SiteIds : Quiet /\ StartManualAnchor(p, s, Day1)
    \/ \E p \in Procs : Quiet /\ StartAnchorJob(p)
    \/ \E p \in Procs : AdapterAccepts(p)
    \/ \E p \in Procs, status \in ErrorStatuses : AdapterRejects(p, status)
    \/ \E p \in Procs : RetryFetch(p)
    \/ \E p \in Procs : AnchorUpdate(p)

\* the service when its handlers run one after the other
SpecSeq == Init /\ [][SeqNext]_vars

\* bound of the ingestion model: the records of one request
MaxBatch == 2

\* the readings a client may send: 1.2346 kWh; 0 kWh; no metric at all;
\* -60 degrees; 0 kW, 0 W/m2 and 0 degrees at another site; and three
\* records the schema rejects (empty site id, malformed timestamp, NaN)
IngestReadings ==
    { Reading(PRJ001, At(T1), <<>>, <<>>, <<>>, <<>>, <<Num(12346)>>),
      Reading(PRJ001, At(T1), <<>>, <<>>, <<>>, <<>>, <<Num(0)>>),
      Reading(PRJ001, At(T1), <<>>, <<>>, <<>>, <<>>, <<>>),
      Reading(PRJ001, At(T2), <<>>, <<Num(-60 * Scale)>>, <<>>, <<>>, <<>>),
      Reading(PRJ002, At(T1), <<Num(0)>>, <<Num(0)>>, <<>>, <<Num(0)>>, <<>>),
      Reading(<<>>, At(T1), <<>>, <<>>, <<>>, <<>>, <<Num(12346)>>),
      Reading(PRJ001, Malformed, <<>>, <<>>, <<>>, <<>>, <<Num(12346)>>),
      Reading(PRJ001, At(T2), <<>>, <<>>, <<>>, <<>>, <<NaN>>) }

\* the request bodies: no telemetry field, or a list of up to MaxBatch records
IngestBodies ==
    { [telemetry |-> <<>>] }
    \cup { [telemetry |-> <<list>>] :
              list \in UNION { [1..n -> IngestReadings] : n \in 0..MaxBatch } }

IngestNext == \E body \in IngestBodies : IngestTelemetry(body)

IngestInit == MerkleIdle /\ StoreInit /\ AnchorInit /\ AnchorOn /\ SchedInit

\* POST /v1/ingest alone
SpecIngest == IngestInit /\ [][IngestNext]_vars

-----------------------------------------------------------------------------
(***************************************************************************)
(* Claims about the Merkle tree                                            *)
(***************************************************************************)

Count(s, x) == Cardinality({ i \in 1..Len(s) : s[i] = x })
Elems(s) == { s[i] : i \in 1..Len(s) }
IsPermutation(a, b) ==
    /\ Len(a) = Len(b)
    /\ \A x \in Elems(a) \cup Elems(b) : Count(a, x) = Count(b, x)

\* C4: a proof that getProof returns for a leaf of the tree verifies
\* against the root of the tree, whatever the position of the leaf.
C4_GivenProofVerifies ==
    (/\ mkVerify # <<>> /\ mkProof # <<>>
     /\ mkVerify[1].leaf = mkProof[1].leaf
     /\ mkVerify[1].proof = mkProof[1].proof)
    => mkVerify[1].result

\* C5: with one element of the proof changed, removed or added, or with
\* another leaf, verification against the root of the tree fails.
C5_TamperedRejected ==
    (/\ mkVerify # <<>> /\ mkProof # <<>> /\ mkTree # <<>>
     /\ \/ /\ mkVerify[1].leaf = mkProof[1].leaf
           /\ mkVerify[1].proof \in
                Tampered(mkProof[1].proof,
                         HashPool \cup TreeNodes(mkTree[1]) \cup {ForeignHash})
        \/ /\ mkVerify[1].leaf # mkProof[1].leaf
           /\ mkVerify[1].proof = mkProof[1].proof)
    => ~mkVerify[1].result

\* a tampered proof was rejected for a leaf whose given proof verifies, and
\* the proof has at least two elements
C5_Witness ==
    /\ mkVerify # <<>> /\ mkProof # <<>> /\ mkTree # <<>>
    /\ Len(mkProof[1].proof) >= 2
    /\ verifyProof(mkProof[1].leaf, mkProof[1].proof, getRoot(mkTree[1]))
    /\ mkVerify[1].leaf = mkProof[1].leaf
    /\ mkVerify[1].proof # mkProof[1].proof
    /\ ~mkVerify[1].result

\* C6: the root returned for a list equals the root of every permutation
\* of that list.
C6_RootOrderIndependent ==
    (mkLast # <<>> /\ IsPermutation(mkLast[1].input, mkInput))
    => generateMerkleRoot(mkInput) = mkLast[1].root

\* a root was returned for a list of three or more distinct hashes that has
\* since been reordered
C6_Witness ==
    /\ mkLast # <<>>
    /\ mkInput # mkLast[1].input
    /\ IsPermutation(mkLast[1].input, mkInput)
    /\ Cardinality(Elems(mkInput)) >= 3

\* the case of C7: a root was returned for three distinct hashes, and the
\* caller now holds that list with its third element repeated (in any order)
OddThenDuplicated ==
    /\ mkLast # <<>>
    /\ Len(mkLast[1].input) = 3
    /\ Cardinality(Elems(mkLast[1].input)) = 3
    /\ IsPermutation(Append(mkLast[1].input, mkLast[1].input[3]), mkInput)

\* C7 as claimed: [h1,h2,h3] and [h1,h2,h3,h3] have the same root for any
\* three distinct hashes.
C7_OddSameAsDuplicated ==
    OddThenDuplicated => generateMerkleRoot(mkInput) = mkLast[1].root

\* C7 amended: [h1,h2,h3] and [h1,h2,h3,h3] have the same root when h3 is
\* the greatest of the three, the one the builder duplicates after sorting.
C7_OddSameAsDuplicatedGreatest ==
    (/\ OddThenDuplicated
     /\ \A i \in 1..2 : LexLess(mkLast[1].input[i], mkLast[1].input[3]))
    => generateMerkleRoot(mkInput) = mkLast[1].root

C7_Witness ==
    /\ OddThenDuplicated
    /\ \A i \in 1..2 : LexLess(mkLast[1].input[i], mkLast[1].input[3])
    /\ mkInput # Append(mkLast[1].input, mkLast[1].input[3])

\* C8: for a single row hash h the root is h itself and the proof of h is
\* empty.
C8_SingleLeaf ==
    Len(mkInput) = 1 =>
        /\ mkLast # <<>> => mkLast[1].root = mkInput[1]
        /\ (mkProof # <<>> /\ mkProof[1].leaf = mkInput[1]) =>
              (mkProof[1].ok /\ mkProof[1].proof = <<>>)

C8_Witness ==
    /\ Len(mkInput) = 1
    /\ mkLast # <<>> /\ mkLast[1].root = mkInput[1]
    /\ mkProof # <<>> /\ mkProof[1].leaf = mkInput[1]

-----------------------------------------------------------------------------
(***************************************************************************)
(* Claims about anchoring                                                  *)
(***************************************************************************)

\* the accepted submissions of the adapter for the digest with this id
Submissions(id) == { i \in 1..Len(adapter.log) : adapter.log[i].digestId = id }

InFlightFor(id) ==
    { p \in Procs : procs[p].pc = "inflight" /\ procs[p].digest[1].id = id }

\* C1: whatever the interleaving of anchor jobs and manual anchor requests,
\* the anchoring service receives at most one submission per digest and no
\* two submissions for one digest are in flight at the same time.
C1_OneSubmissionPerDigest ==
    \A id \in 1..MaxDigestIds :
        /\ Cardinality(Submissions(id)) <= 1
        /\ Cardinality(InFlightFor(id)) <= 1

\* the digest an anchor call arriving now would find anchored
AnchoredAt(siteId, dayUtc) ==
    { d \in DigestsAt(dailyDigest, siteId, dayUtc) : d.anchored }

\* a manual anchor request on an anchored digest: no request goes out, the
\* digest stays as it is, the reply carries the stored references
ManualAnchorIsNoOp ==
    \A p \in Procs, s \in SiteIds :
        (StartManualAnchor(p, s, Day1) /\ AnchoredAt(s, Day1) # {}) =>
            /\ adapter' = adapter
            /\ dailyDigest' = dailyDigest
            /\ procs'[p].pc = "done"
            /\ procs'[p].requests = 0
            /\ \A d \in AnchoredAt(s, Day1) :
                  /\ procs'[p].reply[1].status = "200"
                  /\ procs'[p].reply[1].adapterTxId = d.adapterTxId
                  /\ procs'[p].reply[1].txHash = d.txHash

\* an anchor job on an anchored digest: no request goes out, the digest
\* stays as it is
AnchorJobIsNoOp ==
    \A p \in Procs :
        (/\ StartAnchorJob(p)
         /\ \E d \in DigestsById(dailyDigest, Head(anchorQueue)) : d.anchored) =>
            /\ adapter' = adapter
            /\ dailyDigest' = dailyDigest
            /\ procs'[p].pc = "done"
            /\ procs'[p].requests = 0

\* a digest anchored by an accepted submission: the adapter has exactly that
\* one submission for it
OneSubmissionStored ==
    \A d \in dailyDigest :
        (d.anchored /\ d.adapterTxId # << <<"disabled", 0>> >>) =>
            /\ Cardinality(Submissions(d.id)) = 1
            /\ \A i \in Submissions(d.id) :
                  /\ d.adapterTxId = << <<"atx", adapter.log[i].tx>> >>
                  /\ d.txHash = << <<"0x", adapter.log[i].tx>> >>

C3_AnchorMonotonic ==
    \A k \in everAnchored :
        \A d \in DigestsAt(dailyDigest, k[1], k[2]) : d.anchored

-----------------------------------------------------------------------------
(***************************************************************************)
(* Claims about ingestion                                                  *)
(***************************************************************************)

Metrics == {"poaIrrWm2", "tempC", "windMps", "acPowerKw", "acEnergyKWh"}

\* the metrics that enter the row hash
HashedMetrics == Metrics \ {"windMps"}

Without(input, m) == [input EXCEPT ![m] = <<>>]

\* what the pipeline makes of one validated record
Pipeline(input) == normalizeTelemetry(clampValues(input))

\* the request of the last ingestion call and what it was answered
LastBody == ingestReply[1].body.telemetry[1]
LastReply == ingestReply[1].reply

\* C9: for every record of an accepted request, each metric is present after
\* validate, clampValues and normalizeTelemetry exactly if it was present in
\* the record; a metric sent as 0 comes out as 0, is stored as 0, and the
\* row hash reported for the record differs from that of the same record
\* without the metric.
C9_PresencePreserved ==
    (ingestReply # <<>> /\ LastReply.status = "200") =>
        \A i \in 1..Len(LastBody) : \A m \in Metrics :
            LET input == LastBody[i]
                out == Pipeline(input)
            IN /\ (input[m] = <<>>) <=> (out[m] = <<>>)
               /\ (input[m] = <<Num(0)>>) =>
                    /\ out[m] = <<0>>
                    /\ (i = Len(LastBody)) =>
                          \A r \in RowsAt(rawTelemetry, out.siteId, out.tsUtc) :
                              r[m] = <<0>>
                    /\ (m \in HashedMetrics) =>
                          LastReply.results[i].rowHash # Pipeline(Without(input, m)).rowHash

\* the last request mixes records the schema accepts with records it rejects
MixedBatch ==
    /\ ingestReply # <<>> /\ ingestReply[1].body.telemetry # <<>>
    /\ \E i \in 1..Len(LastBody) : SchemaAccepts(LastBody[i])
    /\ \E i \in 1..Len(LastBody) : ~SchemaAccepts(LastBody[i])

\* C10: for every request that mixes valid and invalid records, each record
\* the schema accepts is stored and listed in results, and each record the
\* schema rejects is listed in errors.
C10_PerRecordOutcome ==
    MixedBatch =>
        \A i \in 1..Len(LastBody) :
            LET input == LastBody[i]
            IN IF SchemaAccepts(input)
               THEN /\ RowsAt(rawTelemetry, input.siteId, input.tsUtc.instant) # {}
                    /\ \E j \in 1..Len(LastReply.results) :
                          /\ LastReply.results[j].siteId = input.siteId
                          /\ LastReply.results[j].tsUtc = ToISOString(input.tsUtc.instant)
               ELSE \E j \in 1..Len(LastReply.errors) :
                          LastReply.errors[j].input = input


-----------------------------------------------------------------------------
(***************************************************************************)
(* Scheduling, retries and aggregation runs                                *)
(***************************************************************************)

\* the slots whose handler was a job of the recurring trigger and has ended
EndedTriggerJobs ==
    { p \in Procs : procs[p].pc = "done" /\ procs[p].siteId = ALL }

\* aggregateHourly or aggregateDaily, as the kind says, was called for the site
RanFor(kind, siteId) == \E call \in ran : call[1] = kind /\ call[2] = siteId

\* C11: once a job put on the queue by a firing of the recurring hourly
\* (daily) trigger has been processed, aggregateHourly (aggregateDaily) has
\* run for every configured site.
C11_TriggerAggregatesEverySite ==
    \A p \in EndedTriggerJobs :
        \A site \in SiteTable : RanFor(procs[p].kind, site.id)

\* a daily job that aggregated a digest and has ended
EndedDailyJobs ==
    { p \in Procs : /\ procs[p].kind = "daily"
                    /\ procs[p].pc = "done"
                    /\ procs[p].reply[1] = Reply("completed", "", <<>>, <<>>) }

\* the digest of the UTC day the instant falls in
DigestOfDay(siteId, instant) == DigestsAt(dailyDigest, siteId, getDayStart(instant))

\* C12: with anchoring enabled, a daily job that succeeded for (site, day)
\* while the digest of that day is not anchored has put an anchor job for
\* the digest on the anchor queue, whatever instant of the day the job's
\* dayUtc is.
C12_DailyJobEnqueuesAnchor ==
    \A p \in EndedDailyJobs :
        \A d \in DigestOfDay(procs[p].siteId, procs[p].dayUtc) :
            (env.ANCHOR_ENABLED /\ ~d.anchored) => d.id \in Elems(anchorQueue)

\* the step of handler p that writes anchored = true with the references
\* its submission returned
AnchoredWrite(p) ==
    /\ AnchorUpdate(p)
    /\ procs[p].anchorResult[1].success
    /\ DigestsById(dailyDigest, procs[p].digest[1].id) # {}

\* C13: the write that sets anchored = true lands on a digest that is not
\* anchored, so it happens at most once per digest, and it stores the
\* references of the handler's successful submission; an anchored digest
\* carries the references of the one submission the adapter accepted for it.
C13_AnchoredWrittenOnce ==
    /\ []OneSubmissionStored
    /\ [][\A p \in Procs :
            AnchoredWrite(p) =>
                /\ \A d \in DigestsById(dailyDigest, procs[p].digest[1].id) :
                      ~d.anchored
                /\ \A d \in DigestsById(dailyDigest', procs[p].digest[1].id) :
                      /\ d.anchored
                      /\ d.adapterTxId = procs[p].anchorResult[1].adapterTxId
                      /\ d.txHash = procs[p].anchorResult[1].txHash]_vars

\* handler p is back from anchorDigest with a failure after sending requests
Exhausted(p) ==
    /\ procs[p].pc = "update"
    /\ ~procs[p].anchorResult[1].success
    /\ procs[p].requests > 0

Unanchored(d) == ~d.anchored /\ d.adapterTxId = <<>> /\ d.txHash = <<>>

ErrorReply(p) == IF procs[p].kind = "manualAnchor" THEN "500" ELSE "failed"

\* the digest carries the references of a submission the adapter accepted
AnchoredByAccepted(d) ==
    /\ d.anchored
    /\ \E i \in Submissions(d.id) :
          /\ d.adapterTxId = << <<"atx", adapter.log[i].tx>> >>
          /\ d.txHash = << <<"0x", adapter.log[i].tx>> >>

\* C14: when every attempt of a submission has failed, the digest is
\* unanchored with no references (unless a submission of another call was
\* accepted for it) and the handler's last step leaves it as it is; the
\* manual request answers 500 and the worker job fails, neither with
\* references.
C14_ExhaustedLeavesUnanchored ==
    /\ [](\A p \in Procs :
            Exhausted(p) =>
                /\ procs[p].requests = MaxRetries + 1
                /\ \A d \in DigestsById(dailyDigest, procs[p].digest[1].id) :
                      Unanchored(d) \/ AnchoredByAccepted(d))
    /\ [][\A p \in Procs :
            (Exhausted(p) /\ AnchorUpdate(p)) =>
                /\ dailyDigest' = dailyDigest
                /\ procs'[p].pc = "done"
                /\ procs'[p].reply[1].status = ErrorReply(p)
                /\ procs'[p].reply[1].message = "Failed to anchor digest"
                /\ procs'[p].reply[1].adapterTxId = <<>>
                /\ procs'[p].reply[1].txHash = <<>>]_vars

\* a manual request has ended in error after four requests, and the digest
\* is unanchored with no references
C14_Witness ==
    \E p \in Procs, d \in dailyDigest :
        /\ procs[p].pc = "done"
        /\ procs[p].kind = "manualAnchor"
        /\ procs[p].reply[1].status = "500"
        /\ procs[p].reply[1].message = "Failed to anchor digest"
        /\ procs[p].requests = MaxRetries + 1
        /\ d.siteId = procs[p].siteId
        /\ Unanchored(d)

\* the delays retryWithBackoff has waited after k failed attempts
Backoff(k) == [j \in 1..k |-> BaseDelay * 2^(j - 1)]

\* C15: a submission is attempted at most maxRetries + 1 = 4 times; every
\* failed attempt but the last is followed by a wait of baseDelay * 2^k
\* (1000, 2000, 4000 ms) and one more attempt; a successful attempt ends the
\* loop; the failure of the last attempt ends it with that attempt's error.
C15_RetryWithBackoff ==
    /\ [](\A p \in Procs :
            /\ procs[p].requests <= 4
            /\ procs[p].requests <= MaxRetries + 1
            /\ procs[p].waited = Backoff(Len(procs[p].waited))
            /\ procs[p].waited \in { <<>>, <<1000>>, <<1000, 2000>>,
                                     <<1000, 2000, 4000>> }
            /\ procs[p].pc = "inflight" => procs[p].requests = Len(procs[p].waited) + 1
            /\ procs[p].pc = "backoff" => procs[p].requests = Len(procs[p].waited)
            /\ Exhausted(p) => /\ procs[p].requests = MaxRetries + 1
                               /\ Len(procs[p].waited) = MaxRetries)
    /\ [][\A p \in Procs :
            /\ \A status \in ErrorStatuses :
                  AdapterRejects(p, status) =>
                      IF procs[p].requests = MaxRetries + 1
                      THEN /\ procs'[p].pc = "update"
                           /\ procs'[p].anchorResult[1] =
                                 AnchorFailure(<<"Adapter API returned", status>>)
                           /\ procs'[p].waited = procs[p].waited
                      ELSE /\ procs'[p].pc = "backoff"
                           /\ Len(procs'[p].waited) = Len(procs[p].waited) + 1
            /\ AdapterAccepts(p) =>
                  /\ procs'[p].pc = "update"
                  /\ procs'[p].anchorResult[1].success
            /\ procs[p].pc = "update" =>
                  /\ procs'[p].pc \in {"update", "done"}
                  /\ procs'[p].requests = procs[p].requests]_vars

\* a submission has failed four times, after waits of 1000, 2000 and 4000 ms
C15_Witness ==
    \E p \in Procs :
        /\ Exhausted(p)
        /\ procs[p].requests = 4
        /\ procs[p].waited = <<1000, 2000, 4000>>

\* C16: with anchoring enabled and the adapter's endpoint or key missing, an
\* anchor call fails at once: no request is sent, nothing is waited for, no
\* submission reaches the adapter, every digest stays unanchored, and the
\* handler ends in error.
C16_ConfigErrorIsTerminal ==
    /\ []((env.ANCHOR_ENABLED /\ ~env.ADAPTER_CONFIGURED) =>
            /\ adapter.log = <<>>
            /\ \A d \in dailyDigest : Unanchored(d)
            /\ \A p \in Procs :
                  /\ procs[p].requests = 0
                  /\ procs[p].waited = <<>>
                  /\ procs[p].pc \notin {"inflight", "backoff"}
                  /\ procs[p].pc = "update" =>
                        procs[p].anchorResult[1] =
                            AnchorFailure(<<"Adapter API not configured", 0>>))
    /\ [][\A p \in Procs :
            (env.ANCHOR_ENABLED /\ ~env.ADAPTER_CONFIGURED /\ AnchorUpdate(p)) =>
                /\ dailyDigest' = dailyDigest
                /\ procs'[p].reply[1].status = ErrorReply(p)
                /\ procs'[p].reply[1].message = "Failed to anchor digest"]_vars

\* with the adapter not configured, a manual request on an unanchored digest
\* has answered 500 without a request
C16_Witness ==
    \E p \in Procs, d \in dailyDigest :
        /\ env.ANCHOR_ENABLED /\ ~env.ADAPTER_CONFIGURED
        /\ procs[p].pc = "done"
        /\ procs[p].kind = "manualAnchor"
        /\ procs[p].reply[1].status = "500"
        /\ procs[p].reply[1].message = "Failed to anchor digest"
        /\ procs[p].requests = 0
        /\ d.siteId = procs[p].siteId
        /\ Unanchored(d)

\* the result of the aggregation is what the store holds for its key
Stored(kind, r) ==
    IF kind = "hourly"
    THEN \E h \in SummariesAt(hourlySummary, r.siteId, r.hourUtc) :
            /\ h.energyKWh = r.energyKWh
            /\ h.rows = r.rows
    ELSE \E d \in DigestsAt(dailyDigest, r.siteId, r.dayUtc) :
            /\ d.energyKWh = r.energyKWh
            /\ d.avoidedTco2e = r.avoidedTco2e
            /\ d.rows = r.rows
            /\ d.merkleRoot = r.merkleRoot

ConfiguredSites == { site.id : site \in SiteTable }

\* C17: when an all-sites run has returned, its result has exactly one entry
\* per configured site, null for every site whose aggregation failed; the
\* aggregation ran for every other site, and what it returned is stored.  A
\* failure never ends the loop while sites are left.
C17_BatchIsolation ==
    \A run \in Elems(batchRun) :
        /\ run.pc = "loop" <=> run.todo # {}
        /\ run.pc = "done" =>
              /\ { e[1] : e \in run.results } = ConfiguredSites
              /\ Cardinality(run.results) = Cardinality(ConfiguredSites)
              /\ \A e \in run.results :
                    /\ e[1] \in run.failed => e[2] = <<>>
                    /\ e[1] \notin run.failed =>
                          /\ <<run.kind, e[1], run.instant>> \in ran
                          /\ \A r \in Elems(e[2]) : Stored(run.kind, r)

\* a daily all-sites run has returned: the aggregation of PRJ001 failed, and
\* PRJ002 has its result and its digest
C17_Witness ==
    \E run \in Elems(batchRun) :
        /\ run.pc = "done"
        /\ run.kind = "daily"
        /\ run.failed = {PRJ001}
        /\ <<PRJ001, <<>> >> \in run.results
        /\ \E e \in run.results :
              /\ e[1] = PRJ002
              /\ e[2] # <<>>
              /\ Stored("daily", e[2][1])

\* the digest has the values of the result
SameValues(d, r) ==
    /\ d.energyKWh = r.energyKWh
    /\ d.avoidedTco2e = r.avoidedTco2e
    /\ d.rows = r.rows
    /\ d.merkleRoot = r.merkleRoot

\* the slots whose aggregateDaily run has returned a result
ReturnedDaily ==
    { p \in Procs : /\ procs[p].kind \in {"recompute", "daily"}
                    /\ procs[p].pc = "done"
                    /\ procs[p].result # <<>> }

\* C18: with the records unchanged once the first run has started, whatever
\* the interleaving of the aggregateDaily runs for a (site, day), there is at
\* most one digest for it, its energy, avoided emissions, row count and
\* Merkle root are those one run on the records produces, and it exists once
\* a run has returned.
C18_OverlappingRunsSafe ==
    /\ \A d \in dailyDigest :
          /\ DigestsAt(dailyDigest, d.siteId, d.dayUtc) = {d}
          /\ aggregateDailyResult(rawTelemetry, d.siteId, d.dayUtc)[1] = "result"
          /\ SameValues(d, aggregateDailyResult(rawTelemetry, d.siteId, d.dayUtc)[2])
    /\ \A p \in ReturnedDaily :
          Cardinality(DigestsAt(dailyDigest, procs[p].siteId,
                                getDayStart(procs[p].dayUtc))) = 1

\* two runs for (PRJ001, day 1) that overlapped have both returned: the
\* second slot is only taken while the first is busy
C18_Witness ==
    /\ ReturnedDaily = Procs
    /\ \A p \in Procs : procs[p].siteId = PRJ001
    /\ Cardinality(DigestsAt(dailyDigest, PRJ001, Day1)) = 1

\* C19: a run of aggregateDaily that finds the digest of an earlier run on
\* the same records returns the merkleRoot, energyKWh and avoidedTco2e that
\* run stored and leaves the digest as it is; what a run has returned is what
\* the digest holds.
C19_RecomputeDeterministic ==
    /\ [](\A p \in ReturnedDaily :
            \A d \in DigestsAt(dailyDigest, procs[p].siteId,
                               getDayStart(procs[p].dayUtc)) :
                SameValues(d, procs[p].result[1]))
    /\ [][\A p \in Procs :
            AggregateDailyUpsert(p) =>
                \A d \in DigestsAt(dailyDigest, procs[p].result[1].siteId,
                                   procs[p].result[1].dayUtc) :
                    /\ SameValues(d, procs[p].result[1])
                    /\ dailyDigest' = dailyDigest]_vars

\* the second of two runs made one after the other has returned: no run
\* ever overlapped with another
C19_Witness ==
    /\ started >= 2
    /\ procs[2].pc = "idle"
    /\ 1 \in ReturnedDaily
    /\ procs[1].kind = "recompute"
    /\ procs[1].reply[1].status = "200"
    /\ \E d \in DigestsAt(dailyDigest, PRJ001, Day1) :
          SameValues(d, procs[1].result[1])

-----------------------------------------------------------------------------
(***************************************************************************)
(* Ingestion over the transports                                           *)
(***************************************************************************)

\* at most one record per (site, instant)
KeyUnique == \A r \in rawTelemetry : RowsAt(rawTelemetry, r.siteId, r.tsUtc) = {r}

\* the record a write of this input would create
Written(input) == normalizeTelemetry(clampValues(input))

SameReading(row, n) ==
    /\ row.poaIrrWm2 = n.poaIrrWm2
    /\ row.tempC = n.tempC
    /\ row.windMps = n.windMps
    /\ row.acPowerKw = n.acPowerKw
    /\ row.acEnergyKWh = n.acEnergyKWh
    /\ row.status = n.status
    /\ row.rowHash = n.rowHash

\* rows with the source tag taken off
Untagged(rows) == { [r EXCEPT !.source = ""] : r \in rows }

\* the step has written the input: the record of its key carries its
\* normalized values and row hash, and if the record carried them before,
\* the store is as it was apart from the source tag
LastWriteStored(input) ==
    LET n == Written(input)
    IN /\ \E row \in RowsAt(rawTelemetry', n.siteId, n.tsUtc) : SameReading(row, n)
       /\ (\E row \in RowsAt(rawTelemetry, n.siteId, n.tsUtc) : SameReading(row, n))
            => Untagged(rawTelemetry') = Untagged(rawTelemetry)

\* the input as the MQTT handler and the pull build it
OverMqtt(r, now) ==
    [r EXCEPT !.source = "mqtt", !.tsUtc = IF @ = NoTimestamp THEN At(now) ELSE @]
OverPull(r) == [r EXCEPT !.source = "pull", !.uniqKey = <<>>]

\* C20: whatever the transports of the ingests, the store holds at most one
\* record per (site, instant); after a write the record of its key carries
\* the normalized values and the row hash of that write; a reading ingested
\* again leaves the store as it is apart from the source tag.
C20_IdempotentUpsert ==
    /\ []KeyUnique
    /\ [][\A r \in TransportReadings :
            /\ (SchemaAccepts(r) /\ IngestTelemetry([telemetry |-> << <<r>> >>]))
                  => LastWriteStored(r)
            /\ (SchemaAccepts(OverMqtt(r, T2)) /\ HandleMessage(PRJ001, r, T2))
                  => LastWriteStored(OverMqtt(r, T2))
            /\ (SchemaAccepts(OverPull(r)) /\ PullFromSim(PRJ001, <<r>>))
                  => LastWriteStored(OverPull(r))]_vars

-----------------------------------------------------------------------------
(***************************************************************************)
(* The row hash as a function of the hashed fields                         *)
(***************************************************************************)

\* the reading under every source tag and uniqKey
Retagged(r) ==
    { [r EXCEPT !.source = s, !.uniqKey = k] :
        s \in Sources, k \in {<<>>, <<"k1">>, <<"k2">>} }

\* readings that differ from those of TransportReadings in the raw value
\* (1.5049 kWh and 1.5 kWh both normalize to 1.5), another that normalizes
\* to a different value, and one with another status
HashTwins ==
    { Reading(PRJ001, At(T1), <<>>, <<>>, <<>>, <<>>, <<Num(15049)>>),
      Reading(PRJ001, At(T1), <<>>, <<>>, <<>>, <<>>, <<Num(15051)>>),
      [Reading(PRJ001, At(T1), <<>>, <<>>, <<>>, <<>>, <<Num(15000)>>)
          EXCEPT !.status = <<StatusOUTAGE>>],
      [Reading(PRJ001, At(T1), <<>>, <<>>, <<>>, <<>>, <<Num(15000)>>)
          EXCEPT !.status = <<>>] }

\* the inputs the three transports build from the readings and the schema
\* accepts
BuiltInputs ==
    { a \in TransportReadings
             \cup { [OverMqtt(r, T2) EXCEPT !.siteId = s] :
                       r \in TransportReadings, s \in TransportSites }
             \cup { [OverPull(r) EXCEPT !.siteId = s] :
                       r \in TransportReadings, s \in TransportSites } :
        SchemaAccepts(a) }

HashInputs == UNION { Retagged(r) : r \in BuiltInputs \cup HashTwins }

\* the two normalized records agree in the fields the row hash is made of
SameHashedFields(m, n) ==
    /\ m.siteId = n.siteId
    /\ m.tsUtc = n.tsUtc
    /\ m.acEnergyKWh = n.acEnergyKWh
    /\ m.acPowerKw = n.acPowerKw
    /\ m.poaIrrWm2 = n.poaIrrWm2
    /\ m.tempC = n.tempC
    /\ m.status = n.status

\* for each built input, the row hashes of the accepted inputs that agree
\* with it in the hashed fields
TwinHashes ==
    [a \in BuiltInputs |->
        { Written(b).rowHash :
            b \in { c \in HashInputs :
                      SchemaAccepts(c) /\ SameHashedFields(Written(a), Written(c)) } }]

\* C21: the row hash is a function of the site id, the instant, the
\* normalized energy, power, irradiance and temperature and the status:
\* every stored row hash is the one row hash of all the readings that are
\* equal in those fields to the input that wrote it, whatever their source
\* tag, their uniqKey, the transport and the records ingested before.
C21_RowHashPure ==
    \A row \in rawTelemetry :
        \E a \in BuiltInputs :
            /\ row.siteId = a.siteId
            /\ row.tsUtc = a.tsUtc.instant
            /\ row.source = a.source
            /\ TwinHashes[a] = {row.rowHash}

\* a record written over MQTT carries the row hash of a reading posted over
\* HTTP with a uniqKey and another raw energy value
C21_Witness ==
    \E row \in rawTelemetry, b \in HashInputs :
        /\ row.source = "mqtt"
        /\ b.source = "http" /\ b.uniqKey = <<"k1">>
        /\ b.acEnergyKWh = <<Num(15049)>>
        /\ Cardinality(rawTelemetry) = 2
        /\ row.rowHash = Written(b).rowHash

-----------------------------------------------------------------------------
(***************************************************************************)
(* aggregateDaily on an empty day and on an unknown site                   *)
(***************************************************************************)

KnownSite(siteId) == \E x \in SiteTable : x.id = siteId

\* the call that started in this step has ended without a result: the slot
\* is done, so the call never reaches its upsert, and no digest has changed
EndsWithoutDigest(p, statuses) ==
    /\ procs'[p].pc = "done"
    /\ procs'[p].result = <<>>
    /\ procs'[p].reply[1].status \in statuses
    /\ dailyDigest' = dailyDigest

\* C22: aggregateDaily for a known site without records in the UTC day
\* returns null (the recompute route answers 404, the daily job completes)
\* and for an unknown site throws (500, job failed), with or without
\* records naming that site; in both cases the call ends there and writes
\* or changes no digest, so every digest is of a known site and a day with
\* records.
C22_EmptyVersusUnknown ==
    /\ [][\A p \in Procs, kind \in {"recompute", "daily"},
             s \in TransportSites, d \in {Day1, Day2} :
            StartAggregateDaily(p, kind, s, d) =>
                LET empty == DayRows(rawTelemetry, s, d) = {}
                    r == aggregateDailyResult(rawTelemetry, s, d)
                IN /\ ~KnownSite(s) =>
                        /\ r = <<"throw">>
                        /\ EndsWithoutDigest(p, {"500", "failed"})
                   /\ (KnownSite(s) /\ empty) =>
                        /\ r = <<"null">>
                        /\ EndsWithoutDigest(p, {"404", "completed"})
                   /\ (KnownSite(s) /\ ~empty) =>
                        /\ r[1] = "result"
                        /\ procs'[p].pc = "upsert"]_vars
    /\ [](\A d \in dailyDigest :
            KnownSite(d.siteId) /\ DayRows(rawTelemetry, d.siteId, d.dayUtc) # {})

\* with a digest of (PRJ001, day 1) and a record naming PRJ009 in the
\* store, one call has ended for PRJ001 on the empty day 2 and another for
\* PRJ009 on day 1
C22_Witness ==
    /\ DigestsAt(dailyDigest, PRJ001, Day1) # {}
    /\ DayRows(rawTelemetry, PRJ009, Day1) # {}
    /\ procs[1].pc = "done" /\ procs[1].siteId = PRJ001 /\ procs[1].dayUtc = Day2
    /\ procs[1].reply[1].status = "404"
    /\ procs[2].pc = "done" /\ procs[2].siteId = PRJ009 /\ procs[2].dayUtc = Day1
    /\ procs[2].reply[1].status = "500"
    /\ Cardinality(dailyDigest) = 1

-----------------------------------------------------------------------------
(***************************************************************************)
(* The values of the daily digest                                          *)
(***************************************************************************)

\* the records of the site whose instant is in the UTC day that starts at
\* dayStart
RecordsOfDay(siteId, dayStart) ==
    { r \in rawTelemetry : /\ r.siteId = siteId
                           /\ dayStart <= r.tsUtc
                           /\ r.tsUtc < dayStart + MsPerDay }

\* the elements of a finite set in some order
RECURSIVE AnyOrder(_)
AnyOrder(S) ==
    IF S = {} THEN <<>>
    ELSE LET x == CHOOSE y \in S : TRUE IN <<x>> \o AnyOrder(S \ {x})

\* the sum of the present energy values
RECURSIVE PresentEnergy(_)
PresentEnergy(recs) ==
    IF recs = {} THEN 0
    ELSE LET r == CHOOSE y \in recs : TRUE
         IN (IF r.acEnergyKWh = <<>> THEN 0 ELSE r.acEnergyKWh[1])
            + PresentEnergy(recs \ {r})

\* the digest has the values of the records: energy and baseline are in
\* units of 0.0001, avoidedTco2e = energy x baseline / 1000 in units of
\* 10^-11 tonnes
DigestOfRecords(d, recs) ==
    /\ d.energyKWh = PresentEnergy(recs)
    /\ d.rows = Cardinality(recs)
    /\ d.merkleRoot = generateMerkleRoot(AnyOrder({ r.rowHash : r \in recs }))
    /\ \E site \in SiteTable :
          /\ site.id = d.siteId
          /\ d.avoidedTco2e = d.energyKWh * site.baselineKgPerKWh

\* the records are three, of 1, 2 and 3 kWh
OneTwoThree(recs) ==
    /\ Cardinality(recs) = 3
    /\ { r.acEnergyKWh : r \in recs } = { <<10000>>, <<20000>>, <<30000>> }

\* C23: with the records unchanged since the run read them, the digest that
\* aggregateDaily(site, day) writes has energyKWh = the sum of the present
\* energy values of the records of the site in the UTC day, rows = their
\* number, merkleRoot = the Merkle root of their row hashes and
\* avoidedTco2e = energyKWh x baselineKgPerKWh / 1000; three records of 1, 2
\* and 3 kWh under the baseline 0.708 give 6 kWh and 0.004248 t.
C23_DigestValues ==
    [][\A p \in Procs :
        AggregateDailyUpsert(p) =>
            LET siteId == procs[p].siteId
                dayStart == getDayStart(procs[p].dayUtc)
                recs == RecordsOfDay(siteId, dayStart)
            IN /\ Cardinality(DigestsAt(dailyDigest', siteId, dayStart)) = 1
               /\ \A d \in DigestsAt(dailyDigest', siteId, dayStart) :
                     /\ DigestOfRecords(d, recs)
                     /\ (siteId = PRJ001 /\ OneTwoThree(recs)) =>
                            /\ d.energyKWh = 60000
                            /\ d.avoidedTco2e = 424800000]_vars

\* both batches are in the store and the digest of (PRJ001, day 1) has been
\* written twice and that of PRJ002 once: it counts five records, one of
\* them without energy, and leaves out those of day 2 and of PRJ002
C23_Witness ==
    /\ Cardinality(rawTelemetry) = 7
    /\ \E d \in DigestsAt(dailyDigest, PRJ001, Day1) :
          d.rows = 5 /\ d.energyKWh = 62500
    /\ DigestsAt(dailyDigest, PRJ002, Day1) # {}
    /\ procs[1].pc = "done" /\ procs[1].kind = "daily"
    /\ started >= 3

-----------------------------------------------------------------------------
(***************************************************************************)
(* The values of the hourly summary                                        *)
(***************************************************************************)

\* the records of the site whose instant is in the hour that starts at
\* hourStart
RecordsOfHour(siteId, hourStart) ==
    { r \in rawTelemetry : /\ r.siteId = siteId
                           /\ hourStart <= r.tsUtc
                           /\ r.tsUtc < hourStart + MsPerHour }

\* the values of metric m that are present in the records
ValuesOf(recs, m) == { r[m][1] : r \in { q \in recs : q[m] # <<>> } }

\* the sum of the present values of metric m, and their number
RECURSIVE PresentSum(_, _)
PresentSum(recs, m) ==
    IF recs = {} THEN 0
    ELSE LET r == CHOOSE y \in recs : TRUE
         IN (IF r[m] = <<>> THEN 0 ELSE r[m][1]) + PresentSum(recs \ {r}, m)
PresentCount(recs, m) == Cardinality({ r \in recs : r[m] # <<>> })

\* avg is absent when no record carries m, else the quotient of the sum of
\* the present values by their number
IsAverage(avg, recs, m) ==
    IF PresentCount(recs, m) = 0 THEN avg = <<>>
    ELSE /\ avg # <<>>
         /\ avg[1].sum = PresentSum(recs, m)
         /\ avg[1].length = PresentCount(recs, m)

\* h is the summary of the records
SummaryOfRecords(h, recs) ==
    /\ h.energyKWh = PresentSum(recs, "acEnergyKWh")
    /\ IF ValuesOf(recs, "acPowerKw") = {} THEN h.maxPowerKw = <<>>
       ELSE /\ h.maxPowerKw # <<>>
            /\ h.maxPowerKw[1] \in ValuesOf(recs, "acPowerKw")
            /\ \A v \in ValuesOf(recs, "acPowerKw") : v <= h.maxPowerKw[1]
    /\ IsAverage(h.avgTempC, recs, "tempC")
    /\ IsAverage(h.avgIrrWm2, recs, "poaIrrWm2")
    /\ h.rows = Cardinality(recs)

\* C24: an hourly job over an empty hour returns null and writes nothing;
\* over a non-empty hour it computes the summary of the records of the hour
\* (sum of the present energy values, maximum of the present power values,
\* averages over the present temperature and irradiance values, each of the
\* three absent when no record carries the metric, number of records), and
\* after its upsert the one summary of (site, hour start) carries exactly
\* those values.
C24_HourlySummary ==
    [][\A p \in Procs :
        /\ StartHourlyJob(p) =>
              LET job == Head(hourlyQueue)
                  recs == RecordsOfHour(job.siteId, getHourStart(job.instant))
              IN IF recs = {}
                 THEN /\ procs'[p].pc = "done" /\ procs'[p].result = <<>>
                      /\ hourlySummary' = hourlySummary
                 ELSE /\ procs'[p].pc = "upsertHourly"
                      /\ procs'[p].result[1].siteId = job.siteId
                      /\ procs'[p].result[1].hourUtc = getHourStart(job.instant)
                      /\ SummaryOfRecords(procs'[p].result[1], recs)
        /\ HourlyUpsert(p) =>
              LET r == procs[p].result[1]
              IN SummariesAt(hourlySummary', r.siteId, r.hourUtc) = {r}]_vars

-----------------------------------------------------------------------------
(***************************************************************************)
(* Records the validation rejects                                          *)
(***************************************************************************)

\* the instant cannot be parsed, the site id is empty, or a present numeric
\* value is not finite
InvalidInput(input) ==
    \/ ~input.tsUtc.ok
    \/ Len(input.siteId) = 0
    \/ \E m \in Metrics : input[m] # <<>> /\ ~input[m][1].fin

\* the input the MQTT handler builds for a message on the topic of site s
BuiltMqtt(s, r) == [OverMqtt(r, T2) EXCEPT !.siteId = s]

\* the input the pull of site s builds for a data point
BuiltPull(s, r) == [OverPull(r) EXCEPT !.siteId = s]

\* the store after the writes, in order, of the inputs that are not invalid
RECURSIVE WriteValid(_, _, _)
WriteValid(inputs, i, rows) ==
    IF i > Len(inputs) THEN rows
    ELSE WriteValid(inputs, i + 1,
                    IF InvalidInput(inputs[i]) THEN rows
                    ELSE upsertRawTelemetry(rows, Written(inputs[i])))

\* C25: a record with an instant that cannot be parsed, an empty site id
\* or a present non-finite value is rejected before it is clamped (the clamp
\* would drop the non-finite value) and changes nothing in the store: a
\* request over HTTP that holds one is refused and leaves the store as it
\* is, an MQTT message that is one leaves the store as it is, and a pull
\* leaves the store as the writes of its other points make it.
C25_RejectedLeavesStore ==
    [][/\ \A list \in RejectLists :
            (/\ IngestTelemetry([telemetry |-> <<list>>])
             /\ \E i \in 1..Len(list) : InvalidInput(list[i]))
                => /\ rawTelemetry' = rawTelemetry
                   /\ ~ingestReply'[1].reply.success
       /\ \A s \in TopicSites, r \in RejectReadings :
            (HandleMessage(s, r, T2) /\ InvalidInput(BuiltMqtt(s, r)))
                => rawTelemetry' = rawTelemetry
       /\ \A list \in RejectLists :
            PullFromSim(PRJ001, list)
                => rawTelemetry' =
                      WriteValid([i \in 1..Len(list) |-> BuiltPull(PRJ001, list[i])],
                                 1, rawTelemetry)]_vars

\* with records of both instants in the store, written over MQTT or pull,
\* a request holding an accepted record and one with NaN has been refused
C25_Witness ==
    /\ Cardinality(rawTelemetry) = 2
    /\ \A r \in rawTelemetry : r.source # "http"
    /\ ingestReply # <<>>
    /\ Len(LastBody) = 2
    /\ ~InvalidInput(LastBody[1])
    /\ LastBody[2].acEnergyKWh = <<NaN>>
    /\ ~LastReply.success

-----------------------------------------------------------------------------
(***************************************************************************)
(* The clamp                                                               *)
(***************************************************************************)

\* the physical range of each metric, in units of 0.0001
PhysicalRange ==
    [poaIrrWm2 |-> [lo |-> 0, hi |-> 2000 * Scale],
     tempC |-> [lo |-> -50 * Scale, hi |-> 80 * Scale],
     windMps |-> [lo |-> 0, hi |-> 100 * Scale],
     acPowerKw |-> [lo |-> 0, hi |-> 10000 * Scale],
     acEnergyKWh |-> [lo |-> 0, hi |-> 1000 * Scale]]

InRange(x, m) == x.fin /\ PhysicalRange[m].lo <= x.v /\ x.v <= PhysicalRange[m].hi

\* C26: for every record of an accepted request, each metric that is
\* present after clampValues lies in its physical range, and a metric whose
\* value was inside its range comes out of clampValues unchanged.
C26_ClampedInRange ==
    (ingestReply # <<>> /\ LastReply.status = "200") =>
        \A i \in 1..Len(LastBody) : \A m \in Metrics :
            LET input == LastBody[i]
                clamped == clampValues(input)
            IN /\ (clamped[m] # <<>>) => InRange(clamped[m][1], m)
               /\ (input[m] # <<>> /\ InRange(input[m][1], m)) =>
                     clamped[m] = input[m]

-----------------------------------------------------------------------------
(***************************************************************************)
(* Rounding                                                                *)
(***************************************************************************)

\* the decimal places of each metric
DecimalPlaces ==
    [acEnergyKWh |-> 2, acPowerKw |-> 3, poaIrrWm2 |-> 1, tempC |-> 1, windMps |-> 1]

Distance(a, b) == IF a < b THEN b - a ELSE a - b

\* out is the multiple of 10^-places nearest to the value v (both in units
\* of 0.0001)
RoundedTo(out, v, places) ==
    LET step == 10 ^ (4 - places)
    IN out % step = 0 /\ 2 * Distance(out, v) <= step

\* C27: for every record of an accepted request, normalizeTelemetry leaves
\* an absent metric absent and gives each present metric the nearest value
\* with its number of decimal places (energy 2, power 3, irradiance 1,
\* temperature 1, wind speed 1), which is the value stored: 1.2345 kWh
\* becomes 1.23, 2.3456 kW 2.346, 800.1234 W/m2 800.1 and 25.6789 degrees
\* 25.7.
C27_RoundedToPrecision ==
    (ingestReply # <<>> /\ LastReply.status = "200") =>
        \A i \in 1..Len(LastBody) : \A m \in Metrics :
            LET input == clampValues(LastBody[i])
                out == normalizeTelemetry(input)
            IN /\ (input[m] = <<>>) <=> (out[m] = <<>>)
               /\ (input[m] # <<>>) =>
                     /\ RoundedTo(out[m][1], input[m][1].v, DecimalPlaces[m])
                     /\ (i = Len(LastBody)) =>
                           \A r \in RowsAt(rawTelemetry, out.siteId, out.tsUtc) :
                               r[m] = out[m]
               /\ (input.acEnergyKWh = <<Num(12345)>>) => out.acEnergyKWh = <<12300>>
               /\ (input.acPowerKw = <<Num(23456)>>) => out.acPowerKw = <<23460>>
               /\ (input.poaIrrWm2 = <<Num(8001234)>>) => out.poaIrrWm2 = <<8001000>>
               /\ (input.tempC = <<Num(256789)>>) => out.tempC = <<257000>>

\* the reading of the four examples has been stored after another reading
\* of its instant: energy 1.23, power 2.346, irradiance 800.1, 25.7 degrees
\* and wind 3.5
C27_Witness ==
    /\ ingestReply # <<>> /\ LastReply.status = "200"
    /\ Len(LastBody) = 2
    /\ LastBody[2].acEnergyKWh = <<Num(12345)>>
    /\ LastBody[1].acEnergyKWh = <<Num(9999951)>>
    /\ \E r \in RowsAt(rawTelemetry, PRJ001, T1) :
          /\ r.acEnergyKWh = <<12300>> /\ r.acPowerKw = <<23460>>
          /\ r.poaIrrWm2 = <<8001000>> /\ r.tempC = <<257000>>
          /\ r.windMps = <<35000>>

-----------------------------------------------------------------------------
(***************************************************************************)
(* The length of a proof                                                   *)
(***************************************************************************)

\* the node paired with node index (0-based) of the level when the level
\* above was built: its neighbour, or the node itself when it is the last
\* of an odd-sized level
PairedWith(level, index) ==
    LET siblingIndex == IF index % 2 = 0 THEN index + 1 ELSE index - 1
    IN IF siblingIndex < Len(level) THEN level[siblingIndex + 1]
       ELSE level[index + 1]

\* the proof that has, for each level below the root, the node paired with
\* the ancestor of the leaf at leafIndex
SiblingPerLevel(t, leafIndex) ==
    [l \in 1..(Len(t.tree) - 1) |->
        PairedWith(t.tree[l], leafIndex \div (2 ^ (l - 1)))]

\* C28: the proof getProof returns for a leaf of a tree with k levels has
\* k - 1 elements, one for each level below the root: the sibling of the
\* leaf's ancestor at that level, which for the last node of an odd-sized
\* level is the node's own hash.
C28_SiblingPerLevel ==
    (mkTree # <<>> /\ mkProof # <<>> /\ mkProof[1].ok) =>
        /\ Len(mkProof[1].proof) = Len(mkTree[1].tree) - 1
        /\ mkProof[1].proof =
              SiblingPerLevel(mkTree[1], indexOf(mkTree[1].leaves, mkProof[1].leaf))

-----------------------------------------------------------------------------
(***************************************************************************)
(* Backoff and unrelated digests                                           *)
(***************************************************************************)

\* the anchor job in slot p waits in a backoff delay
InBackoff(p) == procs[p].kind = "anchorJob" /\ procs[p].pc = "backoff"

\* C29: while an anchor job waits in a backoff delay, a job for another
\* digest that is waiting in the queue can be started as long as a worker
\* slot is free, and every step of an anchor job for another digest (the
\* adapter's answer, the update of the digest) can be taken: the job can
\* run to completion without the delay ending.
C29_BackoffDoesNotBlock ==
    \A p \in Procs :
        InBackoff(p) =>
            /\ (/\ anchorQueue # <<>>
                /\ Head(anchorQueue) # procs[p].digestId
                /\ started < MaxCalls
                /\ \E q \in Procs : procs[q].pc \in {"idle", "done"})
                  => ENABLED (\E q \in Procs : StartAnchorJob(q))
            /\ \A q \in Procs \ {p} :
                  (procs[q].kind = "anchorJob" /\ procs[q].digestId # procs[p].digestId) =>
                      /\ (procs[q].pc = "inflight" /\ adapter.nextTx <= MaxTx)
                            => ENABLED AdapterAccepts(q)
                      /\ (procs[q].pc = "update") => ENABLED AnchorUpdate(q)

\* the job of slot 1 waits in its second delay, after two rejected
\* attempts, and the job of slot 2, for the digest of the other site, has
\* anchored its digest with the only submission the adapter accepted
C29_Witness ==
    /\ InBackoff(1) /\ procs[1].waited = <<RetryDelay(0), RetryDelay(1)>>
    /\ procs[2].kind = "anchorJob" /\ procs[2].pc = "done"
    /\ procs[2].digestId # procs[1].digestId
    /\ procs[2].reply[1].message = "Digest anchored successfully"
    /\ Len(adapter.log) = 1 /\ adapter.log[1].digestId = procs[2].digestId
    /\ \E d \in DigestsById(dailyDigest, procs[2].digestId) :
          d.anchored /\ d.siteId # procs[1].digest[1].siteId
    /\ \A d \in DigestsById(dailyDigest, procs[1].digestId) : ~d.anchored

-----------------------------------------------------------------------------
(***************************************************************************)
(* The root of an anchored digest                                          *)
(***************************************************************************)

\* the submissions the adapter accepted under the transaction id the digest
\* stores
StoredSubmission(d) ==
    { i \in 1..Len(adapter.log) : d.adapterTxId = << <<"atx", adapter.log[i].tx>> >> }

\* C30: every digest with anchored = true stores the references of a
\* submission the adapter accepted, and its merkleRoot is the hash that
\* submission sent.
C30_AnchoredRootSubmitted ==
    \A d \in dailyDigest :
        d.anchored =>
            /\ StoredSubmission(d) # {}
            /\ \A i \in StoredSubmission(d) : adapter.log[i].hash = d.merkleRoot

-----------------------------------------------------------------------------
(***************************************************************************)
(* Claims about anchoring and the switch ANCHOR_ENABLED                    *)
(***************************************************************************)

\* the submissions the adapter accepted for this digest row with these
\* references
AcceptedFor(d) ==
    { i \in DOMAIN adapter.log :
        /\ adapter.log[i].digestId = d.id
        /\ d.adapterTxId = << <<"atx", adapter.log[i].tx>> >>
        /\ d.txHash = << <<"0x", adapter.log[i].tx>> >> }

\* the digest carries no transaction reference
NoReferences(d) == d.adapterTxId = <<>> /\ d.txHash = <<>>

\* C31: a digest is marked anchored only after an external submission for
\* it was made and succeeded; with ANCHOR_ENABLED false no anchor path,
\* the manual anchor request included, sets anchored = true or stores
\* transaction references.
C31_AnchoredOnlyAfterSubmission ==
    \A d \in dailyDigest :
        /\ d.anchored => AcceptedFor(d) # {}
        /\ ~env.ANCHOR_ENABLED => (~d.anchored /\ NoReferences(d))

\* the handler in slot p holds the answer of an accepted submission
HoldsAccepted(p) ==
    /\ procs[p].pc = "update"
    /\ procs[p].anchorResult[1].success
    /\ env.ANCHOR_ENABLED

\* the digest of the (site, day) of the submission of slot p is stored as
\* anchored with the references the adapter returned
RecordedFor(p, digests) ==
    \E d \in digests :
        /\ d.siteId = procs[p].digest[1].siteId
        /\ d.dayUtc = procs[p].digest[1].dayUtc
        /\ d.anchored
        /\ d.adapterTxId = procs[p].anchorResult[1].adapterTxId
        /\ d.txHash = procs[p].anchorResult[1].txHash

\* the handler that made an accepted submission finishes with it recorded
SubmissionRecorded ==
    \A p \in Procs :
        (HoldsAccepted(p) /\ procs'[p].pc = "done") => RecordedFor(p, dailyDigest')

\* a submission the adapter accepts is the first one for its topic
FirstForTopic ==
    Len(adapter'.log) > Len(adapter.log) =>
        \A i \in DOMAIN adapter.log :
            adapter.log[i].topic # adapter'.log[Len(adapter'.log)].topic

\* C32: every external submission that succeeded is recorded: when the
\* anchor job or manual anchor request that made it finishes, the digest of
\* that (site, day) has anchored = true with the returned references, also
\* when a purge or recompute of the same (site, day) ran in between; and no
\* (site, day) is submitted a second time.
C32_SubmissionRecorded == [][SubmissionRecorded /\ FirstForTopic]_vars

-----------------------------------------------------------------------------
(***************************************************************************)
(* Claims about the purge                                                  *)
(***************************************************************************)

\* the instant lies in the day that starts at dayUtc
InDay(instant, dayUtc) == instant >= dayUtc /\ instant < dayUtc + MsPerDay

RawOfDay(siteId, dayUtc) ==
    { r \in rawTelemetry : r.siteId = siteId /\ InDay(r.tsUtc, dayUtc) }

SummariesOfDay(siteId, dayUtc) ==
    { h \in hourlySummary : h.siteId = siteId /\ InDay(h.hourUtc, dayUtc) }

\* a purge of (site, day) has answered and none is between two of its steps
PurgeCompleted(siteId, dayUtc) ==
    /\ \E p \in Procs : /\ procs[p].kind = "purge"
                        /\ procs[p].pc = "done"
                        /\ procs[p].siteId = siteId
                        /\ procs[p].dayUtc = dayUtc
    /\ \A p \in Procs : procs[p].kind = "purge" => procs[p].pc = "done"

\* C33: after a purge of (site, day) has completed, and as long as the
\* store holds no reading of that site and day (none was ingested since),
\* it holds no hourly summary and no daily digest of that (site, day)
\* either, also when an aggregation of that (site, day) was in flight while
\* the purge ran.
C33_PurgedStaysEmpty ==
    \A s \in SiteIds, d \in {Day1, Day2} :
        (PurgeCompleted(s, d) /\ RawOfDay(s, d) = {}) =>
            /\ SummariesOfDay(s, d) = {}
            /\ DigestsAt(dailyDigest, s, d) = {}

-----------------------------------------------------------------------------
(***************************************************************************)
(* Claims about the proof endpoint                                         *)
(***************************************************************************)

\* the instants a proof is asked for
ProofInstants == {T1, T2}

\* the answer of the proof endpoint to a request that arrives now
ProofNow(siteId, dayUtc, tsUtc) ==
    SiteProof(dailyDigest, rawTelemetry, siteId, dayUtc, tsUtc)

\* C34: whenever the proof endpoint answers included = true for a stored
\* record, the returned branch verifies the returned leafHash against the
\* returned root, in every state reached by ingest and aggregation,
\* records ingested after the digest was last computed included.
C34_ReturnedProofVerifies ==
    \A ts \in ProofInstants :
        LET answer == ProofNow(PRJ001, Day1, ts)
        IN answer.included =>
              verifyMerkleProof(answer.leafHash, answer.branch, answer.root)

-----------------------------------------------------------------------------
(***************************************************************************)
(* Claims about what a recompute and a purge leave alone                   *)
(***************************************************************************)

\* the handler in slot p runs its dailyDigest.upsert in this step
Upserts(p) == procs[p].pc = "upsert" /\ procs'[p].pc # "upsert"

\* e is d with the four columns of the result and nothing else changed
RecomputedFrom(e, d, result) ==
    /\ e.id = d.id
    /\ e.siteId = d.siteId
    /\ e.dayUtc = d.dayUtc
    /\ e.energyKWh = result.energyKWh
    /\ e.avoidedTco2e = result.avoidedTco2e
    /\ e.rows = result.rows
    /\ e.merkleRoot = result.merkleRoot
    /\ e.anchored = d.anchored
    /\ e.adapterTxId = d.adapterTxId
    /\ e.txHash = d.txHash
    /\ e.csvUrl = d.csvUrl
    /\ e.jsonUrl = d.jsonUrl

\* the upsert of slot p on a digest that exists: that digest keeps its
\* anchor columns and URLs, every other digest stays as it is
RecomputeFrame(p) ==
    LET result == procs[p].result[1]
        found == DigestsAt(dailyDigest, result.siteId, result.dayUtc)
    IN found # {} =>
          /\ dailyDigest \ found \subseteq dailyDigest'
          /\ Cardinality(dailyDigest') = Cardinality(dailyDigest)
          /\ \A d \in found :
                \E e \in dailyDigest' : RecomputedFrom(e, d, result)

\* C35: recomputing an existing digest with aggregateDaily changes only
\* energyKWh, avoidedTco2e, rows and merkleRoot: anchored, adapterTxId,
\* txHash and the artifact URLs are left unchanged and no digest of another
\* (site, day) is touched.
C35_RecomputeFrame ==
    [][\A p \in Procs : Upserts(p) => RecomputeFrame(p)]_vars

\* the handlers ran one after the other in the first slot, and the last
\* one, a daily job, has just recomputed a digest that was anchored before
\* while the digest of the other site is stored
C35_Witness ==
    /\ procs[2] = Idle
    /\ procs[1].kind = "daily"
    /\ procs[1].pc = "enqueue"
    /\ \E d \in DigestsAt(dailyDigest, procs[1].siteId, getDayStart(procs[1].dayUtc)) :
          d.anchored /\ d.adapterTxId # <<>>
    /\ \E d \in dailyDigest : d.siteId # procs[1].siteId

\* the purge in slot p runs its first, second or third deleteMany in this
\* step
DeletesRaw(p) ==
    /\ procs[p].pc \in {"idle", "done"}
    /\ procs'[p].kind = "purge"
    /\ procs'[p].pc = "purgeHourly"
DeletesSummaries(p) == procs[p].pc = "purgeHourly" /\ procs'[p].pc = "purgeDigest"
DeletesDigest(p) == procs[p].pc = "purgeDigest" /\ procs'[p].pc = "done"

\* each step of a purge removes the rows of its (site, day) from its table
\* and nothing else
PurgeFrame(p) ==
    LET s == procs'[p].siteId
        d == procs'[p].dayUtc
    IN /\ DeletesRaw(p) =>
            /\ rawTelemetry' = rawTelemetry \ RawOfDay(s, d)
            /\ UNCHANGED <<hourlySummary, dailyDigest>>
       /\ DeletesSummaries(p) =>
            /\ hourlySummary' = hourlySummary \ SummariesOfDay(s, d)
            /\ UNCHANGED <<rawTelemetry, dailyDigest>>
       /\ DeletesDigest(p) =>
            /\ dailyDigest' =
                  { x \in dailyDigest : ~(x.siteId = s /\ x.dayUtc = d) }
            /\ UNCHANGED <<rawTelemetry, hourlySummary>>

\* C36: a purge of (site, day) removes exactly the raw records with
\* instant in [day 00:00 UTC, next day 00:00 UTC), the hourly summaries in
\* that range and the daily digest of that site and day; records,
\* summaries and digests of other sites or other days are unchanged.
C36_PurgeFrame == [][\A p \in Procs : PurgeFrame(p)]_vars

\* the handlers ran one after the other; the last one, the purge of
\* (PRJ001, day 1), has answered: the records at both ends of the day, the
\* summary of its first hour and its digest are gone, and the record at
\* 00:00 of day 2, the record and the summary of PRJ002 and the digest of
\* day 2 are still there
C36_Witness ==
    /\ procs[2] = Idle
    /\ procs[1].kind = "purge" /\ procs[1].pc = "done"
    /\ {<<r.siteId, r.tsUtc>> : r \in rawTelemetry} = {<<PRJ001, Day2>>, <<PRJ002, T1>>}
    /\ <<"hourly", PRJ001, Day1>> \in ran
    /\ {<<h.siteId, h.hourUtc>> : h \in hourlySummary} = {<<PRJ002, T1>>}
    /\ nextDigestId = 3
    /\ {<<x.siteId, x.dayUtc>> : x \in dailyDigest} = {<<PRJ001, Day2>>}

-----------------------------------------------------------------------------
(***************************************************************************)
(* Claims about the rows of a digest                                       *)
(***************************************************************************)

\* a result or a digest over at least one record, with a root
OverRecords(x) == x.rows >= 1 /\ x.merkleRoot # Undefined /\ x.merkleRoot # <<>>

\* C37: every stored daily digest has rows >= 1 and a defined merkleRoot:
\* aggregateDaily builds no Merkle tree over an empty list of hashes and
\* writes no digest for a day in which it found no record (no run goes on
\* to its upsert with a result of zero rows or without a root).
C37_DigestHasRows ==
    /\ \A d \in dailyDigest : OverRecords(d)
    /\ \A p \in Procs : procs[p].pc = "upsert" => OverRecords(procs[p].result[1])

\* a run for PRJ001 on day 2, a day without records, has ended without a
\* digest, while the digest of day 1 is stored
C37_Witness ==
    /\ \E p \in Procs :
          /\ procs[p].pc = "done"
          /\ procs[p].kind \in {"recompute", "daily"}
          /\ procs[p].siteId = PRJ001
          /\ procs[p].dayUtc = Day2
          /\ procs[p].reply[1].status \in {"404", "completed"}
    /\ DayRows(rawTelemetry, PRJ001, Day2) = {}
    /\ DigestsAt(dailyDigest, PRJ001, Day1) # {}
    /\ DigestsAt(dailyDigest, PRJ001, Day2) = {}

-----------------------------------------------------------------------------
(***************************************************************************)
(* Claims about error replies                                              *)
(***************************************************************************)

\* a body without a telemetry array, or with an empty one
EmptyBody(body) == body.telemetry = <<>> \/ Len(body.telemetry[1]) = 0

\* the request answered in this step had no record in it
AnswersEmptyBody == ingestReply' # <<>> /\ EmptyBody(ingestReply'[1].body)

\* C38: createError(message, code, statusCode) returns an error whose code
\* is the given code and whose statusCode is the given status, so an HTTP
\* ingest request with a missing or empty telemetry array is answered with
\* status 400 and code INVALID_INPUT and stores nothing.
C38_EmptyBodyIs400 ==
    [][AnswersEmptyBody =>
          /\ createError("", "INVALID_INPUT", "400").code = "INVALID_INPUT"
          /\ createError("", "INVALID_INPUT", "400").statusCode = "400"
          /\ ingestReply'[1].reply.status = "400"
          /\ ingestReply'[1].reply.code = "INVALID_INPUT"
          /\ rawTelemetry' = rawTelemetry]_vars

====
